---- MODULE Spec2Model ----
(***************************************************************************)
(* NAM-D Diagnostic Engine: the dual-registry technique identifier         *)
(* (src/ttp_id.py, identify_ttp_dual) and the PMESII risk aggregator       *)
(* (src/execute.py, RISK_SCORER).                                          *)
(*                                                                         *)
(* Numbers.  Python floats are modelled as exact fixed-point integers:     *)
(*   similarities and min_confidence   in millionths   (SimUnit),          *)
(*   reported technique confidences    in thousandths  (round(sim, 3)),    *)
(*   domain scores                     in 1/20000      (ScoreUnit),        *)
(*   instability                       in 1/InstUnit.                      *)
(* Strings are TLA+ strings; Len, SubSeq and \o act on them as on Python   *)
(* strings.                                                                *)
(***************************************************************************)
EXTENDS Integers, Sequences, FiniteSets, TLC

VARIABLES
    pc,            \* position of the caller: "idle", or which call has just returned
    embed_calls,   \* embed_texts invocations made by the last identify_ttp_dual call
    ttp_call,      \* arguments of the last identify_ttp_dual call (NoCall when none)
    ttp_result,    \* the list identify_ttp_dual returned
    risk_call,     \* arguments of the last RISK_SCORER call (NoCall when none)
    risk,          \* the RiskAssessment RISK_SCORER returned (NoCall when none)
    hash_seed,     \* string-hash seed of the interpreter process (0: not drawn yet)
    ta_call,       \* arguments of the last analyze_target_audience call
    ta_result,     \* the VulnerabilityMap analyze_target_audience returned
    ta_prev,       \* what the preceding call with the same arguments returned
    cvf_call,      \* arguments of the last map_to_cvf call
    cvf_result,    \* the CVFResult map_to_cvf returned, or the exception it raised
    peripheral_call,  \* arguments of the last PERIPHERAL_ANALYZER call
    peripheral,    \* the PeripheralSignals it returned, or the exception it raised
    extract_call,  \* text of the last extract_narrative_features call, and the server
    extract_result,  \* the dict it returned, or the exception it raised
    llama_pc,      \* where the run_llama call in progress is ("idle" when none)
    llama_call,    \* arguments of the run_llama call
    attempt,       \* run_llama's local attempt
    llama_log,     \* server calls and sleeps of the run_llama call, in order
    llama_result,  \* what run_llama returned, or the exception it raised
    chunk_pc,      \* where the chunk_text call in progress is ("idle" when none)
    chunk_call,    \* arguments of the chunk_text call
    start,         \* chunk_text's local start
    chunks,        \* chunk_text's local chunks
    starts,        \* the values start had at the loop test, in order
    spans,         \* per iteration: the part of the text its slice text[start:end] took
    registries,    \* the module-level dicts of src/ttp_id.py
    analysis_pc,   \* per concurrent call: where it is in its function
    analysis_in,   \* per concurrent call: the function and the arguments it was given
    analysis_out,  \* per concurrent call: the value it returned
    locals,        \* per frame: the lists the call running in it has assigned
    overlapped,    \* per concurrent call: another call took a step while it ran
    ingest_call,   \* the payload of the last request (NoCall when none)
    ingest_result, \* what ingest returned for it, or the exception it raised
    input_result,  \* what INPUT_LAYER returned for ingest's result, or the exception
    Translator_instance,  \* Translator._instance: 0 for None, or the pipeline object
    pipelines,     \* the pipeline objects constructed in this process so far
    get_pc,        \* per thread: where it is in Translator.get
    constructed,   \* per thread: the pipeline object it constructed (0: none yet)
    get_result     \* per thread: what Translator.get returned to it

identifyVars == <<embed_calls, ttp_call, ttp_result>>
riskVars == <<risk_call, risk>>
audienceVars == <<hash_seed, ta_call, ta_result, ta_prev>>
cvfVars == <<cvf_call, cvf_result>>
peripheralVars == <<peripheral_call, peripheral>>
llamaVars == <<llama_pc, llama_call, attempt, llama_log, llama_result>>
chunkVars == <<chunk_pc, chunk_call, start, chunks, starts, spans>>
extractVars == <<extract_call, extract_result, llamaVars, chunkVars>>
ingestVars == <<ingest_call, ingest_result, input_result>>
translatorVars == <<Translator_instance, pipelines, get_pc, constructed, get_result>>
concurrentVars == <<registries, analysis_pc, analysis_in, analysis_out, locals, overlapped>>

vars == <<pc, identifyVars, riskVars, audienceVars, cvfVars, peripheralVars, extractVars, concurrentVars, ingestVars, translatorVars>>

NoCall == [none |-> TRUE]

(***************************************************************************)
(* Bounds of the model.                                                    *)
(***************************************************************************)
MaxK == 2            \* top_k_per_registry ranges over 0..MaxK
MaxTtps == 2         \* RISK_SCORER is given at most this many identified techniques
MaxAnalyses == 2     \* calls in progress at the same time
MaxRetries == 3      \* run_llama is given max_retries in 0..MaxRetries
MaxIterations == 4   \* iterations of the loop of chunk_text that are followed
MaxThreads == 3      \* threads that call Translator.get

Min(a, b) == IF a <= b THEN a ELSE b
Max(a, b) == IF a >= b THEN a ELSE b

(***************************************************************************)
(* Python string operations.                                               *)
(***************************************************************************)
\* str.isspace for one character (the whitespace str.strip and str.split remove)
IsSpace(c) == c \in {" ", "\t", "\n", "\r"}

\* str.lower for one character
LowerChar(c) ==
    CASE c = "A" -> "a" [] c = "B" -> "b" [] c = "C" -> "c" [] c = "D" -> "d"
      [] c = "E" -> "e" [] c = "F" -> "f" [] c = "G" -> "g" [] c = "H" -> "h"
      [] c = "I" -> "i" [] c = "J" -> "j" [] c = "K" -> "k" [] c = "L" -> "l"
      [] c = "M" -> "m" [] c = "N" -> "n" [] c = "O" -> "o" [] c = "P" -> "p"
      [] c = "Q" -> "q" [] c = "R" -> "r" [] c = "S" -> "s" [] c = "T" -> "t"
      [] c = "U" -> "u" [] c = "V" -> "v" [] c = "W" -> "w" [] c = "X" -> "x"
      [] c = "Y" -> "y" [] c = "Z" -> "z" [] OTHER -> c

RECURSIVE Lower(_)
\* str.lower()
Lower(s) ==
    IF Len(s) = 0 THEN ""
    ELSE IF Len(s) = 1 THEN LowerChar(s)
    ELSE Lower(SubSeq(s, 1, Len(s) \div 2)) \o Lower(SubSeq(s, Len(s) \div 2 + 1, Len(s)))

RECURSIVE LStrip(_)
LStrip(s) ==
    IF Len(s) > 0 /\ IsSpace(SubSeq(s, 1, 1)) THEN LStrip(SubSeq(s, 2, Len(s))) ELSE s

RECURSIVE RStrip(_)
RStrip(s) ==
    IF Len(s) > 0 /\ IsSpace(SubSeq(s, Len(s), Len(s)))
    THEN RStrip(SubSeq(s, 1, Len(s) - 1)) ELSE s

\* str.strip()
Strip(s) == RStrip(LStrip(s))

\* the Python test  kw in s  on strings
Contains(kw, s) ==
    \E i \in 1..(Len(s) - Len(kw) + 1) : SubSeq(s, i, i + Len(kw) - 1) = kw

\* any(kw in s for kw in keywords)
ContainsAny(keywords, s) == \E j \in DOMAIN keywords : Contains(keywords[j], s)

(***************************************************************************)
(* Python list operations.                                                 *)
(***************************************************************************)
PyIndex(n, i) == IF i < 0 THEN Max(n + i, 0) ELSE Min(i, n)

\* lst[a:b]
PySlice(lst, a, b) ==
    LET lo == PyIndex(Len(lst), a)
        hi == PyIndex(Len(lst), b)
    IN  IF lo >= hi THEN <<>> ELSE SubSeq(lst, lo + 1, hi)

RECURSIVE InsertByConfidence(_, _)
\* x placed after every element whose confidence is >= x.confidence (stability)
InsertByConfidence(sorted, x) ==
    IF sorted = <<>> THEN <<x>>
    ELSE IF Head(sorted).confidence >= x.confidence
         THEN <<Head(sorted)>> \o InsertByConfidence(Tail(sorted), x)
         ELSE <<x>> \o sorted

RECURSIVE SortByConfidenceDesc(_)
\* lst.sort(key=lambda x: x["confidence"], reverse=True): stable, descending
SortByConfidenceDesc(lst) ==
    IF lst = <<>> THEN <<>>
    ELSE InsertByConfidence(SortByConfidenceDesc(SubSeq(lst, 1, Len(lst) - 1)),
                            lst[Len(lst)])

(***************************************************************************)
(* The registries.  The source holds 362 CAT and 225 DISARM entries; the   *)
(* model keeps a sample of them, in the order the source stores them, with *)
(* each description cut to the words the code looks at.                    *)
(***************************************************************************)
TTP_DESCRIPTIONS == <<
    [id |-> "CAT-2025-002", name |-> "Habituation", category |-> "Exploit",
     description |-> "Habituation is desensitization. Layer: 8 (individual cognition)."],
    [id |-> "CAT-2024-003", name |-> "False Feedback Injection", category |-> "TTP",
     description |-> "False Feedback Injection. Layer: 7 (AI/model) or 8 (individual)."],
    [id |-> "CAT-2023-009", name |-> "Backdoor Attacks", category |-> "TTP",
     description |-> "Backdoor Attacks embed triggers. Trojaned models. Layer: 7 (AI/model)."],
    [id |-> "CAT-2022-175", name |-> "Rubber-Hose Cryptanalysis", category |-> "Exploit",
     description |-> "Rubber-Hose Cryptanalysis uses coercion or torture to extract keys. Layer: 8."] >>

DISARM_DESCRIPTIONS == <<
    [id |-> "DISARM-T0001", name |-> "Plan Strategy", category |-> "TTP",
     description |-> "Develop overall strategy for disinformation campaign."],
    [id |-> "DISARM-T0015", name |-> "Create Hashtags and Search Artifacts", category |-> "TTP",
     description |-> "Create hashtags to promote fabricated events."],
    [id |-> "DISARM-T0049.003", name |-> "Bots Amplify via Automated Forwarding and Reposting",
     category |-> "TTP",
     description |-> "Use automated activity to amplify content. Mechanism: Bot amplification."] >>

\* CAT_EMBEDDINGS / DISARM_EMBEDDINGS: one embedding per entry, in registry order
CAT_EMBEDDINGS == DOMAIN TTP_DESCRIPTIONS
DISARM_EMBEDDINGS == DOMAIN DISARM_DESCRIPTIONS

tech_keywords == <<"ultrasonic", "model inversion", "backdoor", "prompt injection",
                   "coercion", "torture", "extract keys", "rubber-hose", "cryptanalysis",
                   "encryption", "blockchain", "quantum", "cryptography", "malware", "trojan">>

tech_keywords_disarm == <<"deepfake", "bot", "hashtag", "inauthentic">>

(***************************************************************************)
(* Fixed-point arithmetic of identify_ttp_dual.                            *)
(***************************************************************************)
SimUnit == 1000 * 1000      \* 1.0 as a similarity
ConfPerSim == 10 * 100      \* millionths in one thousandth

\* round(sim, 3): to the nearest thousandth, an exact half to the even one
Round3(sim) ==
    LET q == sim \div ConfPerSim
        r == sim % ConfPerSim
    IN  IF 2 * r < ConfPerSim THEN q
        ELSE IF 2 * r > ConfPerSim THEN q + 1
        ELSE IF q % 2 = 0 THEN q ELSE q + 1

\* sim *= f  for a factor given in tenths
Scale(sim, tenths) == (sim * tenths) \div 10

LayerFactorTenths == 8     \* sim *= 0.8
CatPenaltyTenths == 3      \* sim *= 0.3
DisarmPenaltyTenths == 7   \* sim *= 0.7

(***************************************************************************)
(* Inputs of identify_ttp_dual.  The embedding model is outside the        *)
(* program: the dot product of the narrative's embedding with each entry's *)
(* embedding is an input of the call.                                      *)
(***************************************************************************)
NarrativeTexts == {"", " \n\t ", "Leaders spread fear", "Bots push MALWARE"}
SimValues == {200000, 450400, 900000}
MinConfidenceValues == {200000, 450000, 450100}
TopKValues == 0..MaxK

\* per CAT entry: category in ["vulnerability", "exploit"]
CatIsCognitive ==
    [i \in CAT_EMBEDDINGS |->
        Lower(TTP_DESCRIPTIONS[i].category) \in {"vulnerability", "exploit"}]

\* per CAT entry: "layer" in description.lower() and "7" in description
CatIsLayer7 ==
    [i \in CAT_EMBEDDINGS |->
        /\ Contains("layer", Lower(TTP_DESCRIPTIONS[i].description))
        /\ Contains("7", TTP_DESCRIPTIONS[i].description)]

\* per CAT entry: any(kw in description.lower() for kw in tech_keywords)
CatDescIsTechnical ==
    [i \in CAT_EMBEDDINGS |->
        ContainsAny(tech_keywords, Lower(TTP_DESCRIPTIONS[i].description))]

\* per DISARM entry: any(kw in description.lower() for kw in tech_keywords_disarm)
DisarmDescIsTechnical ==
    [i \in DISARM_EMBEDDINGS |->
        ContainsAny(tech_keywords_disarm, Lower(DISARM_DESCRIPTIONS[i].description))]

\* per text: any(kw in narrative_text.lower() for kw in tech_keywords)
TextHasCatTech == [t \in NarrativeTexts |-> ContainsAny(tech_keywords, Lower(t))]

\* per text: any(kw in narrative_text.lower() for kw in tech_keywords_disarm)
TextHasDisarmTech == [t \in NarrativeTexts |-> ContainsAny(tech_keywords_disarm, Lower(t))]

\* a blank test that forgets strip(): only the empty string is blank
IsBlankNoStrip == [t \in NarrativeTexts |-> t = ""]

\* per text: not narrative_text.strip()
IsBlank == [t \in NarrativeTexts |-> Strip(t) = ""]

\* the adjusted similarity of CAT entry i
CatAdjustedSim(i, sim, narrative_text, prioritize_cognitive) ==
    LET s1 == IF CatIsCognitive[i] THEN sim
              ELSE IF CatIsLayer7[i] THEN Scale(sim, LayerFactorTenths)
              ELSE sim
        s2 == IF CatDescIsTechnical[i] /\ ~TextHasCatTech[narrative_text]
              THEN Scale(s1, CatPenaltyTenths)
              ELSE s1
    IN  IF prioritize_cognitive THEN s2 ELSE sim

\* the adjusted similarity of DISARM entry i
DisarmAdjustedSim(i, sim, narrative_text) ==
    IF DisarmDescIsTechnical[i] /\ ~TextHasDisarmTech[narrative_text]
    THEN Scale(sim, DisarmPenaltyTenths)
    ELSE sim

\* the threshold comparison turned round
QualifiesReversed(sim, min_confidence) == sim <= min_confidence

\* the test that admits an entry to the matches
Qualifies(sim, min_confidence) == sim >= min_confidence

\* the dict appended for a qualifying entry
MatchEntry(entry, sim, source) ==
    [id |-> entry.id, name |-> entry.name, confidence |-> Round3(sim), source |-> source]

RECURSIVE CatLoop(_, _, _, _, _)
\* the loop over CAT_EMBEDDINGS.items(), entries 1..n, in registry order
CatLoop(n, cat_sim, narrative_text, min_confidence, prioritize_cognitive) ==
    IF n = 0 THEN <<>>
    ELSE LET sim == CatAdjustedSim(n, cat_sim[n], narrative_text, prioritize_cognitive)
             before == CatLoop(n - 1, cat_sim, narrative_text, min_confidence,
                               prioritize_cognitive)
         IN  IF Qualifies(sim, min_confidence)
             THEN Append(before, MatchEntry(TTP_DESCRIPTIONS[n], sim, "CAT"))
             ELSE before

RECURSIVE DisarmLoop(_, _, _, _)
\* the loop over DISARM_EMBEDDINGS.items()
DisarmLoop(n, disarm_sim, narrative_text, min_confidence) ==
    IF n = 0 THEN <<>>
    ELSE LET sim == DisarmAdjustedSim(n, disarm_sim[n], narrative_text)
             before == DisarmLoop(n - 1, disarm_sim, narrative_text, min_confidence)
         IN  IF Qualifies(sim, min_confidence)
             THEN Append(before, MatchEntry(DISARM_DESCRIPTIONS[n], sim, "DISARM"))
             ELSE before

\* cat_matches after cat_matches.sort(...)
cat_matches(cat_sim, narrative_text, min_confidence, prioritize_cognitive) ==
    SortByConfidenceDesc(CatLoop(Len(TTP_DESCRIPTIONS), cat_sim, narrative_text,
                                 min_confidence, prioritize_cognitive))

\* disarm_matches after disarm_matches.sort(...)
disarm_matches(disarm_sim, narrative_text, min_confidence) ==
    SortByConfidenceDesc(DisarmLoop(Len(DISARM_DESCRIPTIONS), disarm_sim, narrative_text,
                                    min_confidence))

\* the entries added when the two top-k lists fall short of total_target
extras(cat, disarm, top_k_per_registry, remaining_needed) ==
    LET extra_cat == PySlice(cat, top_k_per_registry, top_k_per_registry + remaining_needed)
        extra_disarm == PySlice(disarm, top_k_per_registry,
                                top_k_per_registry + remaining_needed)
    IN  PySlice(SortByConfidenceDesc(extra_cat \o extra_disarm), 0, remaining_needed)

\* one ranked list over the union of both registries, no per-registry top k
FinalResultsPooled(cat, disarm, top_k_per_registry) == cat \o disarm

\* the two top-k lists without the backfill
FinalResultsNoBackfill(cat, disarm, top_k_per_registry) ==
    PySlice(cat, 0, top_k_per_registry) \o PySlice(disarm, 0, top_k_per_registry)

\* final_results before the final sort
final_results(cat, disarm, top_k_per_registry) ==
    LET top == PySlice(cat, 0, top_k_per_registry) \o PySlice(disarm, 0, top_k_per_registry)
        total_target == top_k_per_registry * 2
    IN  IF Len(top) < total_target
        THEN top \o extras(cat, disarm, top_k_per_registry, total_target - Len(top))
        ELSE top

\* the cap set to top_k_per_registry instead of total_target
BalancedMergeCapAtK(cat, disarm, top_k_per_registry) ==
    PySlice(SortByConfidenceDesc(final_results(cat, disarm, top_k_per_registry)),
            0, top_k_per_registry)

\* the final sort forgotten
BalancedMergeUnsorted(cat, disarm, top_k_per_registry) ==
    PySlice(final_results(cat, disarm, top_k_per_registry), 0, top_k_per_registry * 2)

\* the merge: top k of each registry, the backfill, the final sort and the cap
BalancedMerge(cat, disarm, top_k_per_registry) ==
    PySlice(SortByConfidenceDesc(final_results(cat, disarm, top_k_per_registry)),
            0, top_k_per_registry * 2)

\* the value identify_ttp_dual returns
identify_ttp_dual(narrative_text, top_k_per_registry, min_confidence, prioritize_cognitive, cat_sim, disarm_sim) ==
    IF IsBlank[narrative_text] THEN <<>>
    ELSE BalancedMerge(
             cat_matches(cat_sim, narrative_text, min_confidence, prioritize_cognitive),
             disarm_matches(disarm_sim, narrative_text, min_confidence),
             top_k_per_registry)

\* embed_texts([narrative_text]) is reached only past the blank test
EmbedCallsOf(narrative_text) == IF IsBlank[narrative_text] THEN 0 ELSE 1

(***************************************************************************)
(* State machine.                                                          *)
(***************************************************************************)
\* the concurrent calls, and the frames of their locals
Analyses == 1..MaxAnalyses
Threads == 1..MaxThreads

\* the module-level dicts of src/ttp_id.py once the module is loaded
LoadedRegistries ==
    [TTP_DESCRIPTIONS |-> TTP_DESCRIPTIONS, DISARM_DESCRIPTIONS |-> DISARM_DESCRIPTIONS,
     CAT_EMBEDDINGS |-> CAT_EMBEDDINGS, DISARM_EMBEDDINGS |-> DISARM_EMBEDDINGS]

\* a frame whose locals are not assigned
NoLocals ==
    [cat_matches |-> <<>>, disarm_matches |-> <<>>, psychological_hits |-> <<>>,
     sociocultural_hits |-> <<>>, scores |-> <<>>]

\* after module load, before any call
Init ==
    /\ pc = "idle"
    /\ embed_calls = 0
    /\ ttp_call = NoCall
    /\ ttp_result = <<>>
    /\ risk_call = NoCall
    /\ risk = NoCall
    /\ hash_seed = 0
    /\ ta_call = NoCall
    /\ ta_result = NoCall
    /\ ta_prev = NoCall
    /\ cvf_call = NoCall
    /\ cvf_result = NoCall
    /\ peripheral_call = NoCall
    /\ peripheral = NoCall
    /\ extract_call = NoCall
    /\ extract_result = NoCall
    /\ llama_pc = "idle"
    /\ llama_call = NoCall
    /\ attempt = 0
    /\ llama_log = <<>>
    /\ llama_result = NoCall
    /\ chunk_pc = "idle"
    /\ chunk_call = NoCall
    /\ start = 0
    /\ chunks = <<>>
    /\ starts = <<>>
    /\ spans = <<>>
    /\ registries = LoadedRegistries
    /\ analysis_pc = [call \in Analyses |-> "idle"]
    /\ analysis_in = [call \in Analyses |-> NoCall]
    /\ analysis_out = [call \in Analyses |-> NoCall]
    /\ locals = [frame \in Analyses |-> NoLocals]
    /\ overlapped = [call \in Analyses |-> FALSE]
    /\ ingest_call = NoCall
    /\ ingest_result = NoCall
    /\ input_result = NoCall
    /\ Translator_instance = 0
    /\ pipelines = 0
    /\ get_pc = [thread \in Threads |-> "idle"]
    /\ constructed = [thread \in Threads |-> 0]
    /\ get_result = [thread \in Threads |-> NoCall]

\* one call of identify_ttp_dual, its arguments and dot products drawn from the
\* given sets
IdentifyFrom(Texts, Sims, MinConfidences) ==
    /\ pc = "idle"
    /\ \E narrative_text \in Texts, top_k_per_registry \in TopKValues,
          min_confidence \in MinConfidences, prioritize_cognitive \in BOOLEAN,
          cat_sim \in [CAT_EMBEDDINGS -> Sims],
          disarm_sim \in [DISARM_EMBEDDINGS -> Sims] :
        /\ ttp_call' = [narrative_text |-> narrative_text,
                        top_k_per_registry |-> top_k_per_registry,
                        min_confidence |-> min_confidence,
                        prioritize_cognitive |-> prioritize_cognitive,
                        cat_sim |-> cat_sim, disarm_sim |-> disarm_sim]
        /\ ttp_result' = identify_ttp_dual(narrative_text, top_k_per_registry,
                                           min_confidence, prioritize_cognitive,
                                           cat_sim, disarm_sim)
        /\ embed_calls' = EmbedCallsOf(narrative_text)
    /\ pc' = "identified"
    /\ UNCHANGED <<riskVars, audienceVars, cvfVars, peripheralVars, extractVars, concurrentVars, ingestVars, translatorVars>>

Identify == IdentifyFrom(NarrativeTexts, SimValues, MinConfidenceValues)

\* the caller takes the returned list; the per-call data is dropped
TakeIdentified ==
    /\ pc = "identified"
    /\ pc' = "idle"
    /\ ttp_call' = NoCall
    /\ ttp_result' = <<>>
    /\ embed_calls' = 0
    /\ UNCHANGED <<riskVars, audienceVars, cvfVars, peripheralVars, extractVars, concurrentVars, ingestVars, translatorVars>>

NextIdentify == Identify \/ TakeIdentified

SpecIdentify == Init /\ [][NextIdentify]_vars

\* identify_ttp_dual with dot products of unit vectors of either sign and a
\* min_confidence that is zero or negative
SignedTexts == {"Leaders spread fear", "Bots push MALWARE"}
SignedSimValues == {0 - 200000, 450400, SimUnit}
SignedMinConfidenceValues == {0 - SimUnit, 0}

IdentifySigned == IdentifyFrom(SignedTexts, SignedSimValues, SignedMinConfidenceValues)

NextSigned == IdentifySigned \/ TakeIdentified

SpecSigned == Init /\ [][NextSigned]_vars

(***************************************************************************)
(* RISK_SCORER (src/execute.py).                                           *)
(***************************************************************************)
ScoreUnit == 20 * 1000             \* 1.0 as a domain score
AlignUnit == 1 + 1                 \* 1.0 as an alignment_score
InstUnit == 20 * ScoreUnit * 40    \* 1.0 as an instability

Hundredths(n) == n * (ScoreUnit \div 100)
\* a confidence in thousandths as a score
ConfToScore(c) == c * (ScoreUnit \div 1000)

political_keywords == <<"eu", "un", "icc", "icj", "brussels", "the hague", "brics", "nato",
    "wto", "g7", "g20", "sanctions", "diplomacy", "treaty", "summit", "election", "regime",
    "elite", "corruption", "deep state", "polarization", "sovereignty", "international law">>
military_keywords == <<"nato", "army", "navy", "air force", "military equipment", "troops",
    "battalion", "division", "weapon", "missile", "drone", "cyberwar", "hybrid warfare",
    "aggression", "invasion", "defense", "alliance", "peacekeeping", "arms race">>
economic_keywords == <<"oil", "opec", "sanctions", "shipping", "gas", "energy", "trade war",
    "tariff", "currency", "inflation", "recession", "supply chain", "blockade", "boycott",
    "market crash", "poverty", "wealth gap">>
social_keywords == <<"community", "tribe", "ethnicity", "religion", "protest", "riot",
    "migration", "demographic", "inequality", "social media amplification", "echo chamber",
    "genocide", "human rights", "civil unrest", "polarization", "identity politics">>
information_keywords == <<"fake news", "disinformation", "misinformation", "deepfake", "bot",
    "amplify", "narrative", "framing", "censorship", "media bias", "information warfare">>
infrastructure_keywords == <<"power grid", "transportation", "water", "communication network",
    "cyber infrastructure", "supply lines", "port", "pipeline", "critical infrastructure">>

Domains == {"political", "military", "economic", "social", "information", "infrastructure"}

DomainKeywords ==
    [political |-> political_keywords, military |-> military_keywords,
     economic |-> economic_keywords, social |-> social_keywords,
     information |-> information_keywords, infrastructure |-> infrastructure_keywords]

(***************************************************************************)
(* Inputs of RISK_SCORER.  The hit tags are tags the upstream analyzers    *)
(* produce (lower-case, hyphenated; "Threat", "Crisis Trigger") and free   *)
(* strings, which RISK_SCORER accepts as well.                             *)
(***************************************************************************)
NeutralText == "The weather is mild today."
SaturatingText ==
    "NATO sanctions and polarization in the community: army, navy, troops and drone defense; "
    \o "oil, gas and energy; tribe, religion, protest and riot; fake news, disinformation, "
    \o "bot and deepfake; water, port, pipeline, power grid and transportation."
RiskTexts == {"", NeutralText, "Sanctions hit the port", SaturatingText}
\* texts that repeat a keyword
RepeatedTexts == {"Sanctions, sanctions, sanctions.", "NATO, Nato, nato, NATO and nato",
                  "A drone, then a drone"}
ScoredTexts == RiskTexts \cup RepeatedTexts

PsychHitLists == {<<>>, <<"fear-response">>}
SocioHitLists == {<<>>, <<"identity-polarization">>,
                  <<"Energy Poverty", "identity-polarization">>}
FramingLists == {<<>>, <<"Threat", "Invasion">>}
TemporalLists == {<<>>, <<"Water Crisis Trigger">>}
HitStrings == {"fear-response", "identity-polarization", "Energy Poverty", "Threat",
               "Invasion", "Water Crisis Trigger"}

TtpNames == {"Habituation", "War Shipping", "Establish Your Identity", "Supply Chain Attack"}
TtpConfidences == {450, 900}
IdentifiedTtp == [name : TtpNames, confidence : TtpConfidences]
TtpLists == UNION {[1..n -> IdentifiedTtp] : n \in 0..MaxTtps}
AlignmentValues == 0..AlignUnit

RECURSIVE Split(_)
\* str.split(): the set of the whitespace-separated words of s
Split(s) ==
    LET t == LStrip(s)
        first == CHOOSE n \in 0..Len(t) :
                     /\ \A i \in 1..n : ~IsSpace(SubSeq(t, i, i))
                     /\ n = Len(t) \/ IsSpace(SubSeq(t, n + 1, n + 1))
    IN  IF Len(t) = 0 THEN {}
        ELSE {SubSeq(t, 1, first)} \cup Split(SubSeq(t, first + 1, Len(t)))

\* per technique name: name_lower.split()
NameWords == [nm \in TtpNames |-> Split(Lower(nm))]

\* ttp_conf_by_keyword.get(kw, 0.0): the highest confidence among the techniques
\* whose name has the word kw, 0.0 when there is none
ttp_conf_by_keyword(identified_ttps, kw) ==
    LET confs == {identified_ttps[n].confidence :
                     n \in {m \in DOMAIN identified_ttps :
                               kw \in NameWords[identified_ttps[m].name]}}
    IN  IF confs = {} THEN 0 ELSE CHOOSE c \in confs : \A d \in confs : d <= c

\* s.count(kw): the occurrences of kw in s (no keyword overlaps itself)
Occurrences(kw, s) ==
    Cardinality({i \in 1..(Len(s) - Len(kw) + 1) : SubSeq(s, i, i + Len(kw) - 1) = kw})

RECURSIVE SumOccurrences(_, _, _)
SumOccurrences(keywords, n, s) ==
    IF n = 0 THEN 0 ELSE SumOccurrences(keywords, n - 1, s) + Occurrences(keywords[n], s)

\* the keyword occurrences in the lower-cased text, every occurrence counted
OccurrenceHits(keywords, narrative_text) ==
    SumOccurrences(keywords, Len(keywords), Lower(narrative_text))

\* hits: the number of keywords kw with kw.lower() in narrative_lower
KeywordHits(keywords, narrative_text) ==
    Cardinality({j \in DOMAIN keywords :
                    Contains(Lower(keywords[j]), Lower(narrative_text))})

\* KeywordHits per domain and text
HitCount == [d \in Domains |-> [t \in ScoredTexts |-> KeywordHits(DomainKeywords[d], t)]]

\* the keyword hits taken off the score instead of added to it
KeywordHitPenalty(domain, multiplier, narrative_text) ==
    0 - Min(HitCount[domain][narrative_text] * Hundredths(multiplier), Hundredths(60))

\* min(hits * multiplier, 0.6), the multiplier in hundredths
keyword_hit_score(domain, multiplier, narrative_text) ==
    Min(HitCount[domain][narrative_text] * Hundredths(multiplier), Hundredths(60))

\* per domain and hit: any(kw in hit.lower() for kw in keywords)
HitMatches ==
    [d \in Domains |-> [h \in HitStrings |-> ContainsAny(DomainKeywords[d], Lower(h))]]

RECURSIVE SumTtpConf(_, _, _)
\* sum(ttp_conf_by_keyword.get(kw, 0.0) for kw in keywords), over keywords 1..n
SumTtpConf(keywords, n, identified_ttps) ==
    IF n = 0 THEN 0
    ELSE SumTtpConf(keywords, n - 1, identified_ttps)
         + ttp_conf_by_keyword(identified_ttps, keywords[n])

\* domain_boost(base, keywords, source_hits, max_boost), base and max_boost in hundredths
domain_boost(base, domain, source_hits, max_boost, identified_ttps) ==
    LET keywords == DomainKeywords[domain]
        matching == Cardinality({n \in DOMAIN source_hits : HitMatches[domain][source_hits[n]]})
        hit_strength == IF source_hits # <<>> THEN matching * Hundredths(20) ELSE 0
        ttp_strength ==
            (3 * ConfToScore(SumTtpConf(keywords, Len(keywords), identified_ttps))) \div 10
    IN  Min(Hundredths(base) + hit_strength + ttp_strength,
            Hundredths(base) + Hundredths(max_boost))

RECURSIVE SumConfidence(_)
\* sum(t["confidence"] for t in identified_ttps)
SumConfidence(identified_ttps) ==
    IF identified_ttps = <<>> THEN 0
    ELSE Head(identified_ttps).confidence + SumConfidence(Tail(identified_ttps))

\* per technique name: one of "politicized", "distrust", "identity" in name.lower()
NameIsPoliticized ==
    [nm \in TtpNames |-> ContainsAny(<<"politicized", "distrust", "identity">>, Lower(nm))]

\* any(kw in " ".join(names) for kw in [...]): none of the three words holds a
\* space, so a match lies inside one name
PoliticizedTtp(identified_ttps) ==
    \E n \in DOMAIN identified_ttps : NameIsPoliticized[identified_ttps[n].name]

\* the clamp left out
ClampScoreMissing(v) == v

\* max(0.0, min(1.0, v)) on a domain score
ClampScore(v) == Max(0, Min(ScoreUnit, v))

\* the six domain values before the clamp
political_raw(c) ==
    LET boosted == domain_boost(30, "political", c.sociocultural_hits, 70, c.identified_ttps)
                   + keyword_hit_score("political", 15, c.narrative_text)
    IN  IF PoliticizedTtp(c.identified_ttps)
        THEN Min(ScoreUnit, boosted + Hundredths(20))
        ELSE boosted

military_raw(c) ==
    domain_boost(35, "military", c.framing_patterns, 65, c.identified_ttps)
    + keyword_hit_score("military", 12, c.narrative_text)

economic_raw(c) ==
    domain_boost(30, "economic", c.sociocultural_hits, 70, c.identified_ttps)
    + keyword_hit_score("economic", 15, c.narrative_text)

social_raw(c) ==
    domain_boost(20, "social", c.psychological_hits \o c.sociocultural_hits, 40,
                 c.identified_ttps)
    + keyword_hit_score("social", 10, c.narrative_text)

information_raw(c) ==
    Min(ScoreUnit, ConfToScore(SumConfidence(c.identified_ttps)) \div 4)
    + keyword_hit_score("information", 18, c.narrative_text)

infrastructure_raw(c) ==
    domain_boost(30, "infrastructure", c.temporal_cues, 60, c.identified_ttps)
    + keyword_hit_score("infrastructure", 12, c.narrative_text)

\* the six domain scores after the clamp, in the order p, m, e, s, i, infra
DomainScores(c) ==
    <<ClampScore(political_raw(c)), ClampScore(military_raw(c)), ClampScore(economic_raw(c)),
      ClampScore(social_raw(c)), ClampScore(information_raw(c)),
      ClampScore(infrastructure_raw(c))>>

\* the resonance multipliers 0.2, 0.2, 0.2, 0.2, 0.3, 0.15, in twentieths
Sensitivity == <<4, 4, 4, 4, 6, 3>>
\* the weights 0.20, 0.10, 0.15, 0.20, 0.25, 0.10, in twentieths
Weights == <<4, 2, 3, 4, 5, 2>>

\* instability_components[n]: score * (1 + ta_resonance * sensitivity), in 1/(40*ScoreUnit)
\* the resonance damping the component instead of amplifying it
InstabilityComponentDamped(scores, n, ta_resonance) ==
    scores[n] * (40 - ta_resonance * Sensitivity[n])

instability_component(scores, n, ta_resonance) ==
    scores[n] * (40 + ta_resonance * Sensitivity[n])

RECURSIVE WeightedSum(_, _, _)
\* the weighted sum of the components 1..n, in 1/InstUnit
WeightedSum(scores, n, ta_resonance) ==
    IF n = 0 THEN 0
    ELSE WeightedSum(scores, n - 1, ta_resonance)
         + Weights[n] * instability_component(scores, n, ta_resonance)

\* the clamp of the instability left out
ClampInstabilityMissing(v) == v

\* max(0.0, min(1.0, instability))
ClampInstability(v) == Max(0, Min(InstUnit, v))

\* int(x) for x = num / den, den > 0: truncation toward zero
PyInt(num, den) == IF num >= 0 THEN num \div den ELSE -((-num) \div den)

\* int(instability * 99) + 1
RiskIndex(instability) == PyInt(instability * 99, InstUnit) + 1

\* a domain counted as strong from 0.5 on instead of above 0.5
SignalCountFromHalf(scores) == Cardinality({n \in DOMAIN scores : 2 * scores[n] >= ScoreUnit})

\* signal_count: the number of domain scores > 0.5
signal_count(scores) == Cardinality({n \in DOMAIN scores : 2 * scores[n] > ScoreUnit})

\* round(num / den, 2) in hundredths: nearest, an exact half to the even one
Round2(num, den) ==
    LET q == (100 * num) \div den
        r == (100 * num) % den
    IN  IF 2 * r < den THEN q
        ELSE IF 2 * r > den THEN q + 1
        ELSE IF q % 2 = 0 THEN q ELSE q + 1

\* round(0.6 + 0.4 * (signal_count / 6.0), 2), in hundredths
Confidence(count) == Round2(36 + 4 * count, 60)

\* the RiskAssessment built from the six domain scores
RiskAssessment(scores, alignment_score) ==
    LET instability == ClampInstability(WeightedSum(scores, 6, alignment_score))
    IN  [risk_index |-> RiskIndex(instability),
         instability |-> instability,
         confidence |-> Confidence(signal_count(scores)),
         p |-> scores[1], m |-> scores[2], e |-> scores[3],
         s |-> scores[4], i |-> scores[5], infra |-> scores[6]]

\* the RiskAssessment RISK_SCORER returns
RISK_SCORER(c) == RiskAssessment(DomainScores(c), c.alignment_score)

\* one call of RISK_SCORER, from entry to return, the identified techniques and the
\* text drawn from the given sets
ScoreCall(Ttps, Texts) ==
    /\ pc = "idle"
    /\ \E psychological_hits \in PsychHitLists, sociocultural_hits \in SocioHitLists,
          alignment_score \in AlignmentValues, framing_patterns \in FramingLists,
          temporal_cues \in TemporalLists, identified_ttps \in Ttps,
          narrative_text \in Texts :
        LET c == [psychological_hits |-> psychological_hits,
                  sociocultural_hits |-> sociocultural_hits,
                  alignment_score |-> alignment_score,
                  framing_patterns |-> framing_patterns,
                  temporal_cues |-> temporal_cues,
                  identified_ttps |-> identified_ttps,
                  narrative_text |-> narrative_text]
        IN  /\ risk_call' = c
            /\ risk' = RISK_SCORER(c)
    /\ pc' = "scored"
    /\ UNCHANGED <<identifyVars, audienceVars, cvfVars, peripheralVars, extractVars, concurrentVars, ingestVars, translatorVars>>

ScoreFrom(Ttps) == ScoreCall(Ttps, RiskTexts)

Score == ScoreFrom(TtpLists)

\* the caller takes the RiskAssessment; the per-call data is dropped
TakeScored ==
    /\ pc = "scored"
    /\ pc' = "idle"
    /\ risk_call' = NoCall
    /\ risk' = NoCall
    /\ UNCHANGED <<identifyVars, audienceVars, cvfVars, peripheralVars, extractVars, concurrentVars, ingestVars, translatorVars>>

NextRisk == Score \/ TakeScored

SpecRisk == Init /\ [][NextRisk]_vars

\* RISK_SCORER over a few technique lists, for the properties that compare two calls
FewTtpLists ==
    {<<>>,
     <<[name |-> "Establish Your Identity", confidence |-> 900]>>,
     <<[name |-> "War Shipping", confidence |-> 900],
       [name |-> "Supply Chain Attack", confidence |-> 450]>>,
     <<[name |-> "Establish Your Identity", confidence |-> 900],
       [name |-> "Habituation", confidence |-> 450],
       [name |-> "Establish Your Identity", confidence |-> 450]>>}

ScoreFew == ScoreFrom(FewTtpLists)

NextRiskFew == ScoreFew \/ TakeScored

SpecRiskFew == Init /\ [][NextRiskFew]_vars

\* RISK_SCORER over texts that repeat a keyword and a text that saturates the boost
ScoreRepeated == ScoreCall(FewTtpLists, RepeatedTexts \cup {SaturatingText})

NextRiskRepeated == ScoreRepeated \/ TakeScored

SpecRiskRepeated == Init /\ [][NextRiskRepeated]_vars

\* Python's None, and what a caller sees of a call that raised
None == "None"
Raised(exception) == [raised |-> exception]

\* RISK_SCORER entered with any identified_ttps: the first statement that uses the
\* list is `for t in identified_ttps`, and None is not iterable
RiskScorerCall(c) ==
    IF c.identified_ttps = None THEN Raised("TypeError") ELSE RISK_SCORER(c)

\* one call of RISK_SCORER with the technique list missing
ScoreMissing ==
    /\ pc = "idle"
    /\ \E psychological_hits \in PsychHitLists, sociocultural_hits \in SocioHitLists,
          alignment_score \in AlignmentValues, framing_patterns \in FramingLists,
          temporal_cues \in TemporalLists, narrative_text \in RiskTexts :
        LET c == [psychological_hits |-> psychological_hits,
                  sociocultural_hits |-> sociocultural_hits,
                  alignment_score |-> alignment_score,
                  framing_patterns |-> framing_patterns,
                  temporal_cues |-> temporal_cues,
                  identified_ttps |-> None,
                  narrative_text |-> narrative_text]
        IN  /\ risk_call' = c
            /\ risk' = RiskScorerCall(c)
    /\ pc' = "scored"
    /\ UNCHANGED <<identifyVars, audienceVars, cvfVars, peripheralVars, extractVars, concurrentVars, ingestVars, translatorVars>>

NextRiskMissing == ScoreFew \/ ScoreMissing \/ TakeScored

SpecRiskMissing == Init /\ [][NextRiskMissing]_vars

(***************************************************************************)
(* analyze_target_audience (src/target_audience.py).  The alignment score  *)
(* is kept in 1/240 (ResonanceUnit): one hit is 20, one technique is 3.    *)
(* list(set(hits)) lists the distinct tags in the iteration order of a     *)
(* Python set of strings, which follows the string hashes of the           *)
(* interpreter process: hash_seed stands for the process's hash seed and   *)
(* HashOrders holds, per seed, the order in which the tags come out.       *)
(***************************************************************************)
ResonanceUnit == 20 * 12
HitUnit == 4 * 5
TtpBoostUnit == 1 + 2

\* " ".join(list)
RECURSIVE Join(_)
Join(list) ==
    IF Len(list) = 0 THEN ""
    ELSE IF Len(list) = 1 THEN list[1]
    ELSE list[1] \o " " \o Join(Tail(list))

\* _lower_list(values): the non-empty values, lowercased
_lower_list(values) ==
    LET kept == SelectSeq(values, LAMBDA v : v # "")
    IN  [n \in DOMAIN kept |-> Lower(kept[n])]

\* _contains_any(text, keywords)
_contains_any(text, keywords) == ContainsAny(keywords, text)

\* any(kw in v for v in values)
AnyContains(values, kw) == \E n \in DOMAIN values : Contains(kw, values[n])

\* " ".join([t["name"].lower() for t in identified_ttps])
ttp_names(identified_ttps) ==
    Join([n \in DOMAIN identified_ttps |-> Lower(identified_ttps[n].name)])

\* the tags of infer_psychological_vulnerabilities in the order of their rules
PsychTags == <<"fear-response", "moral-outrage", "scarcity-urgency-bias",
               "coercive-threat-susceptibility", "ttp-amplified-cognitive-vulnerability",
               "general-anxiety", "economic-anxiety", "institutional-distrust-sensitivity">>

\* hits of infer_psychological_vulnerabilities before list(set(hits)): one Boolean
\* per rule, in rule order
PsychRules(features, ta, identified_ttps) ==
    LET emotional_lower == Join(_lower_list(features.emotional_features))
        rhetorical_lower == Join(_lower_list(features.rhetorical_features))
        known_lower == _lower_list(ta.known_vulnerabilities)
    IN  << _contains_any(emotional_lower, <<"fear", "threat", "danger">>),
           _contains_any(emotional_lower, <<"anger", "outrage", "injustice">>),
           _contains_any(emotional_lower, <<"urgency", "scarcity", "limited">>),
           _contains_any(rhetorical_lower, <<"explicit-threat", "coercion", "force">>),
           _contains_any(ttp_names(identified_ttps),
                         <<"fear", "confirmation bias", "scarcity", "social proof">>),
           AnyContains(known_lower, "anxiety"),
           AnyContains(known_lower, "economic"),
           AnyContains(known_lower, "distrust") >>

\* the tags of infer_sociocultural_vulnerabilities in the order of their rules;
\* two rules append "institutional-distrust"
SocioTags == <<"identity-polarization", "institutional-distrust", "institutional-distrust",
               "politicized-identity-salience", "labor-grievance-susceptibility",
               "family-safety-sensitivity", "faith-based-identity-salience",
               "social-media-amplification-risk", "local-ecosystem-amplification-risk",
               "disinformation-campaign-susceptibility">>

\* any(ch in channels_lower for ch in names): the channel equals a name
AnyEquals(values, names) ==
    \E n \in DOMAIN values, k \in DOMAIN names : values[n] = names[k]

SocioRules(features, ta, identified_ttps) ==
    LET groups_lower == _lower_list(ta.group_identities)
        channels_lower == _lower_list(ta.information_channels)
        orientation == Lower(ta.political_orientation)
        known_lower == _lower_list(ta.known_vulnerabilities)
    IN  << ContainsAny(<<"outgroup", "enemy", "them vs us">>,
                       Lower(Join(features.identity_features))),
           ContainsAny(<<"corruption", "elite", "deep state", "delegitimization">>,
                       Lower(Join(features.rhetorical_features))),
           AnyContains(known_lower, "distrust"),
           orientation \in {"left", "right", "far-left", "far-right", "extremist"},
           AnyContains(groups_lower, "workers") \/ AnyContains(groups_lower, "labor"),
           AnyContains(groups_lower, "parents") \/ AnyContains(groups_lower, "family"),
           AnyContains(groups_lower, "religious"),
           AnyEquals(channels_lower, <<"facebook", "tiktok", "youtube", "social media">>),
           AnyEquals(channels_lower, <<"local news", "radio", "community">>),
           _contains_any(ttp_names(identified_ttps),
                         <<"distort information", "hashtag hijacking", "amplify",
                           "fake experts">>) >>

\* hits: the tags whose rule fired, appended in rule order (repeats kept)
Hits(tags, rules) ==
    LET fired == SelectSeq([n \in DOMAIN tags |-> n], LAMBDA n : rules[n])
    IN  [n \in DOMAIN fired |-> tags[fired[n]]]

\* the order in which a set of these tags is iterated, per hash seed: two of the
\* orders a process can have (those CPython 3 gives for the full tag sets under
\* PYTHONHASHSEED=1 and PYTHONHASHSEED=2)
HashOrders == <<
    <<"institutional-distrust-sensitivity", "moral-outrage", "fear-response",
      "ttp-amplified-cognitive-vulnerability", "general-anxiety", "economic-anxiety",
      "scarcity-urgency-bias", "coercive-threat-susceptibility", "institutional-distrust",
      "local-ecosystem-amplification-risk", "politicized-identity-salience",
      "disinformation-campaign-susceptibility", "family-safety-sensitivity",
      "faith-based-identity-salience", "labor-grievance-susceptibility",
      "social-media-amplification-risk", "identity-polarization">>,
    <<"ttp-amplified-cognitive-vulnerability", "fear-response", "economic-anxiety",
      "coercive-threat-susceptibility", "institutional-distrust-sensitivity",
      "moral-outrage", "scarcity-urgency-bias", "general-anxiety",
      "social-media-amplification-risk", "identity-polarization",
      "politicized-identity-salience", "labor-grievance-susceptibility",
      "faith-based-identity-salience", "institutional-distrust",
      "disinformation-campaign-susceptibility", "family-safety-sensitivity",
      "local-ecosystem-amplification-risk">> >>

HashSeeds == DOMAIN HashOrders

\* list(hits) without the set(): repeats kept
ListKeepingRepeats(seed, hits) == hits

\* list(set(hits)) in a process with the given hash seed
ListOfSet(seed, hits) ==
    LET distinct == {hits[n] : n \in DOMAIN hits}
    IN  SelectSeq(HashOrders[seed], LAMBDA t : t \in distinct)

infer_psychological_vulnerabilities(seed, features, ta, identified_ttps) ==
    ListOfSet(seed, Hits(PsychTags, PsychRules(features, ta, identified_ttps)))

infer_sociocultural_vulnerabilities(seed, features, ta, identified_ttps) ==
    ListOfSet(seed, Hits(SocioTags, SocioRules(features, ta, identified_ttps)))

\* compute_ta_resonance_score: min(1.0, (base_hits + ttp_boost) / 12), in 1/240
compute_ta_resonance_score(psychological_hits, sociocultural_hits, identified_ttps) ==
    LET base_hits == Len(psychological_hits) + Len(sociocultural_hits)
        ttp_boost == Len(identified_ttps) * TtpBoostUnit
    IN  Min(ResonanceUnit, base_hits * HitUnit + ttp_boost)

\* the note of the summary: HIGH from 0.7, MODERATE from 0.4, LOW below
ResonanceNote(ta_resonance) ==
    IF 10 * ta_resonance >= 7 * ResonanceUnit THEN "HIGH"
    ELSE IF 10 * ta_resonance >= 4 * ResonanceUnit THEN "MODERATE"
    ELSE "LOW"

\* the VulnerabilityMap analyze_target_audience returns (of the summary, the
\* counts and the note; its ta_resonance_score repeats alignment_score)
VulnerabilityMap(psychological_hits, sociocultural_hits, identified_ttps) ==
    LET ta_resonance == compute_ta_resonance_score(psychological_hits, sociocultural_hits,
                                                   identified_ttps)
    IN  [psychological_hits |-> psychological_hits,
         sociocultural_hits |-> sociocultural_hits,
         alignment_score |-> ta_resonance,
         psychological_hits_count |-> Len(psychological_hits),
         sociocultural_hits_count |-> Len(sociocultural_hits),
         ttp_amplification_count |-> Len(identified_ttps),
         note |-> ResonanceNote(ta_resonance)]

\* analyze_target_audience(features, ta, identified_ttps) in a process with the
\* given hash seed
analyze_target_audience(seed, features, ta, identified_ttps) ==
    VulnerabilityMap(
        infer_psychological_vulnerabilities(seed, features, ta, identified_ttps),
        infer_sociocultural_vulnerabilities(seed, features, ta, identified_ttps),
        identified_ttps)

\* inputs of analyze_target_audience
EmotionalLists ==
    {<<>>, <<"Fear of collapse">>, <<"Fear of collapse", "public outrage", "Urgency">>}
RhetoricalLists == {<<>>, <<"elite corruption">>}
IdentityLists == {<<>>, <<"the enemy">>}
Orientations == {"", "Right"}
GroupLists == {<<>>, <<"Workers", "Parents", "Religious groups">>}
KnownLists == {<<>>, <<"Distrust of media">>}
ChannelLists == {<<>>, <<"Facebook", "Radio">>}
AudienceTtpLists ==
    {<<>>,
     <<[name |-> "Habituation", confidence |-> 900]>>,
     <<[name |-> "Bots Amplify via Automated Forwarding and Reposting", confidence |-> 900],
       [name |-> "Habituation", confidence |-> 450]>>}
FeatureValues ==
    [emotional_features : EmotionalLists, rhetorical_features : RhetoricalLists,
     identity_features : IdentityLists]
AudienceValues ==
    [political_orientation : Orientations, group_identities : GroupLists,
     known_vulnerabilities : KnownLists, information_channels : ChannelLists]

\* one call of analyze_target_audience; the first hashing of a string in a process
\* fixes the process's hash seed
Analyze ==
    /\ pc = "idle"
    /\ \E features \in FeatureValues, ta \in AudienceValues,
          identified_ttps \in AudienceTtpLists,
          seed \in (IF hash_seed = 0 THEN HashSeeds ELSE {hash_seed}) :
        /\ hash_seed' = seed
        /\ ta_call' = [features |-> features, ta |-> ta,
                       identified_ttps |-> identified_ttps]
        /\ ta_result' = analyze_target_audience(seed, features, ta, identified_ttps)
    /\ ta_prev' = NoCall
    /\ pc' = "analyzed"
    /\ UNCHANGED <<identifyVars, riskVars, cvfVars, peripheralVars, extractVars, concurrentVars, ingestVars, translatorVars>>

\* the interpreter exits and a new process starts before the analysis is repeated
RestartInterpreter ==
    /\ pc = "analyzed"
    /\ hash_seed # 0
    /\ hash_seed' = 0
    /\ UNCHANGED <<pc, ta_call, ta_result, ta_prev, identifyVars, riskVars, cvfVars, peripheralVars, extractVars, concurrentVars, ingestVars, translatorVars>>

\* the same call once more, with identical arguments
AnalyzeAgain ==
    /\ pc = "analyzed"
    /\ \E seed \in (IF hash_seed = 0 THEN HashSeeds ELSE {hash_seed}) :
        /\ hash_seed' = seed
        /\ ta_result' = analyze_target_audience(seed, ta_call.features, ta_call.ta,
                                                ta_call.identified_ttps)
    /\ ta_prev' = ta_result
    /\ pc' = "analyzed_again"
    /\ UNCHANGED <<ta_call, identifyVars, riskVars, cvfVars, peripheralVars, extractVars, concurrentVars, ingestVars, translatorVars>>

\* the caller takes the VulnerabilityMap; the per-call data is dropped, the process
\* and its hash seed stay
TakeAnalyzed ==
    /\ pc \in {"analyzed", "analyzed_again"}
    /\ pc' = "idle"
    /\ ta_call' = NoCall
    /\ ta_result' = NoCall
    /\ ta_prev' = NoCall
    /\ UNCHANGED <<hash_seed, identifyVars, riskVars, cvfVars, peripheralVars, extractVars, concurrentVars, ingestVars, translatorVars>>

NextAudience == Analyze \/ RestartInterpreter \/ AnalyzeAgain \/ TakeAnalyzed

SpecAudience == Init /\ [][NextAudience]_vars

(***************************************************************************)
(* cluster_ttp (src/ttp_clustering.py) and map_to_cvf (src/cvf_model.py).  *)
(* The registry of ttp_clustering is its own TTP_DESCRIPTIONS dict; the    *)
(* model keeps the ids map_to_cvf can infer, in storage order.  The cosine *)
(* similarity of the centroid with each registry embedding is an input of  *)
(* the call, in millionths; the centroid is taken to be non-zero.          *)
(***************************************************************************)
ClusteringTtpIds == <<"CAT-2024-010", "CAT-2022-321", "CAT-2022-266", "CAT-2022-226",
                      "CAT-2022-225", "CAT-2022-216", "CAT-2022-203", "CAT-2022-073",
                      "CAT-2022-071">>

\* TTP_EMBEDDINGS: one embedding per registry id
TTP_EMBEDDINGS == {ClusteringTtpIds[n] : n \in DOMAIN ClusteringTtpIds}

\* CVF_REGISTRY: one Vulnerability node per registry id
CVF_REGISTRY ==
    [id \in TTP_EMBEDDINGS |-> [id |-> id, layer |-> "Vulnerability",
                                category |-> "Cognitive Bias"]]

\* the early return of cluster_ttp: it has no "top_similarity" key
EmptyCluster ==
    [cluster_id |-> None, similarities |-> <<>>, centroid |-> None, activated_count |-> 0]

\* max(similarities, key=similarities.get): the first key, in registry order, with
\* the highest similarity
FirstMax(similarities) ==
    CHOOSE n \in DOMAIN similarities :
        /\ \A m \in DOMAIN similarities : similarities[m] <= similarities[n]
        /\ \A m \in DOMAIN similarities : m < n => similarities[m] < similarities[n]

\* valid_ids: the ids found in TTP_EMBEDDINGS, the others are skipped with a warning
ValidIds(ttp_ids) == SelectSeq(ttp_ids, LAMBDA ttp : ttp \in TTP_EMBEDDINGS)

\* cluster_ttp(ttp_ids); centroid_sim[n] is the cosine similarity of the centroid
\* with registry entry n
cluster_ttp(ttp_ids, centroid_sim) ==
    IF ttp_ids = <<>> THEN EmptyCluster
    ELSE LET valid_ids == ValidIds(ttp_ids)
         IN  IF valid_ids = <<>> THEN EmptyCluster
             ELSE LET similarities ==
                          [n \in DOMAIN ClusteringTtpIds |-> Round3(centroid_sim[n])]
                      best == FirstMax(similarities)
                  IN  [cluster_id |-> ClusteringTtpIds[best],
                       top_similarity |-> similarities[best],
                       similarities |-> similarities,
                       centroid |-> "centroid",
                       activated_count |-> Len(valid_ids),
                       activated_ttps |-> valid_ids]

\* the ids map_to_cvf appends, in the order of its rules (one Boolean per rule)
CvfRuleIds == <<"CAT-2022-266", "CAT-2022-321", "CAT-2023-006", "CAT-2022-225",
                "CAT-2022-226", "CAT-2022-216", "CAT-2022-225", "CAT-2022-203",
                "CAT-2023-006", "CAT-2022-071">>

CvfRules(features) ==
    LET rhetorical_lower == Lower(Join(features.rhetorical_devices))
        frames_lower == Lower(Join(features.narrative_frames))
    IN  << features.sentiment = "negative" /\ Contains("fear", rhetorical_lower),
           features.sentiment = "negative" /\ Contains("anger", rhetorical_lower),
           features.stance = "critical",
           ContainsAny(<<"scarcity", "limited", "urgent", "now or never">>, rhetorical_lower),
           ContainsAny(<<"everyone", "consensus", "majority", "trending">>, rhetorical_lower),
           ContainsAny(<<"authority", "expert", "official">>, rhetorical_lower),
           ContainsAny(<<"loaded", "charged", "extreme language">>, rhetorical_lower),
           Contains("victim", frames_lower) \/ Contains("oppression", frames_lower),
           Contains("corruption", frames_lower) \/ Contains("elite", frames_lower),
           Contains("hero", frames_lower) \/ Contains("savior", frames_lower) >>

\* the ids appended for the cross-narrative links
LinkIds(features) ==
    LET links_lower == Lower(Join(features.cross_narrative_links))
    IN  (IF Contains("conspiracy", links_lower) THEN <<"CAT-2022-073">> ELSE <<>>)
        \o (IF Contains("self-fulfilling", links_lower) THEN <<"CAT-2024-010">> ELSE <<>>)

RECURSIVE HitIds(_)
\* the ids appended for the hits of the vulnerability map
HitIds(hits) ==
    IF hits = <<>> THEN <<>>
    ELSE LET hit_lower == Lower(Head(hits))
         IN  (IF Contains("distrust", hit_lower) THEN <<"CAT-2023-006">> ELSE <<>>)
             \o (IF Contains("anxiety", hit_lower) THEN <<"CAT-2022-266">> ELSE <<>>)
             \o (IF Contains("identity", hit_lower) THEN <<"CAT-2022-203">> ELSE <<>>)
             \o HitIds(Tail(hits))

\* inferred_ttps before the deduplication
InferredBeforeDedup(features, vuln_map) ==
    Hits(CvfRuleIds, CvfRules(features))
    \o features.ttp_signals
    \o LinkIds(features)
    \o HitIds(vuln_map.psychological_hits \o vuln_map.sociocultural_hits)

\* the order in which a set of these ids is iterated, per hash seed
IdHashOrders == <<
    <<"CAT-2022-073", "CAT-2022-203", "CAT-2022-266", "CAT-2022-216", "CAT-2023-006",
      "CAT-2022-071", "CAT-2024-010", "CAT-2022-226", "T9999", "CAT-2022-321",
      "CAT-2022-225">>,
    <<"CAT-2022-071", "CAT-2022-225", "CAT-2023-006", "CAT-2022-203", "CAT-2022-226",
      "CAT-2022-321", "CAT-2022-216", "T9999", "CAT-2022-266", "CAT-2024-010",
      "CAT-2022-073">> >>

\* inferred_ttps = list(set(inferred_ttps))
inferred_ttps(seed, features, vuln_map) ==
    LET distinct == {InferredBeforeDedup(features, vuln_map)[n] :
                        n \in DOMAIN InferredBeforeDedup(features, vuln_map)}
    IN  SelectSeq(IdHashOrders[seed], LAMBDA t : t \in distinct)

\* cluster_boost: 0.3 above 0.7, 0.15 above 0.5, in thousandths
cluster_boost(top_similarity) ==
    IF top_similarity > 700 THEN 300 ELSE IF top_similarity > 500 THEN 150 ELSE 0

\* <<vulns, ttps, boost>> with vulns <= 9 and ttps <= 11 whose halfway value the
\* double arithmetic of the code rounds up
CvfTiesUp ==
    {<<1, 2, 0>>, <<1, 2, 150>>, <<1, 3, 0>>, <<1, 3, 300>>, <<1, 4, 0>>,
     <<1, 4, 300>>, <<1, 5, 0>>, <<1, 5, 150>>, <<1, 6, 0>>, <<1, 6, 150>>,
     <<1, 7, 0>>, <<1, 7, 150>>, <<1, 8, 0>>, <<1, 9, 150>>, <<1, 10, 150>>,
     <<1, 10, 300>>, <<1, 11, 0>>, <<1, 11, 150>>, <<3, 3, 0>>, <<3, 4, 150>>,
     <<3, 5, 150>>, <<3, 5, 300>>, <<3, 6, 0>>, <<3, 6, 150>>, <<3, 7, 0>>,
     <<3, 7, 150>>, <<3, 7, 300>>, <<3, 8, 0>>, <<3, 8, 300>>, <<3, 10, 0>>,
     <<3, 10, 150>>, <<3, 10, 300>>, <<3, 11, 0>>, <<3, 11, 150>>, <<5, 5, 0>>,
     <<5, 5, 150>>, <<5, 5, 300>>, <<5, 6, 0>>, <<5, 6, 150>>, <<5, 7, 0>>,
     <<5, 7, 150>>, <<5, 7, 300>>, <<5, 9, 150>>, <<5, 10, 150>>, <<5, 10, 300>>,
     <<5, 11, 0>>, <<5, 11, 150>>, <<7, 7, 0>>, <<7, 7, 150>>, <<7, 7, 300>>,
     <<7, 8, 300>>, <<7, 10, 0>>, <<7, 10, 150>>, <<7, 10, 300>>, <<7, 11, 0>>,
     <<7, 11, 150>>, <<9, 9, 150>>, <<9, 10, 150>>, <<9, 11, 0>>, <<9, 11, 150>>}

\* round(min(1.0, base_score / 8.0 + cluster_boost), 3) in thousandths, where
\* base_score = 0.5 * vulns + 0.3 * 0 + 0.2 * ttps.  The exact value is
\* (100 * (5 * vulns + 2 * ttps) + 8 * cluster_boost) / 8 thousandths; when it lies
\* halfway between two thousandths the double the code rounds lies just above or
\* just below the half, and CvfTiesUp lists the cases where it rounds up.
CvfScore(vulns, ttps, boost) ==
    LET eighths == Min(8000, 100 * (5 * vulns + 2 * ttps) + 8 * boost)
        q == eighths \div 8
        r == eighths % 8
    IN  IF r < 4 THEN q
        ELSE IF r > 4 THEN q + 1
        ELSE IF <<vulns, ttps, boost>> \in CvfTiesUp THEN q + 1 ELSE q

\* map_to_cvf past the clustering, for a cluster result that has a top_similarity
CvfResultOf(inferred, cluster) ==
    LET activated_vulns ==
            SelectSeq(inferred, LAMBDA t : t \in TTP_EMBEDDINGS
                                           /\ CVF_REGISTRY[t].layer = "Vulnerability")
        patterns == SelectSeq(inferred, LAMBDA t : t \in TTP_EMBEDDINGS)
    IN  [activated_vulnerabilities |-> [n \in DOMAIN activated_vulns |->
                                            CVF_REGISTRY[activated_vulns[n]]],
         activated_exploits |-> <<>>,
         inferred_ttp_patterns |-> [n \in DOMAIN patterns |-> CVF_REGISTRY[patterns[n]]],
         dominant_ttp_cluster |-> cluster,
         cvf_score |-> CvfScore(Len(activated_vulns), Len(inferred),
                                cluster_boost(cluster.top_similarity)),
         activated_ttp_ids |-> inferred,
         dominant_pattern |-> cluster.cluster_id,
         confidence |-> cluster.top_similarity,
         activated_count |-> cluster.activated_count,
         vulnerability_count |-> Len(activated_vulns)]

\* map_to_cvf: ttp_cluster_result["top_similarity"] raises KeyError on the early
\* return of cluster_ttp
map_to_cvf(seed, features, vuln_map, centroid_sim) ==
    LET inferred == inferred_ttps(seed, features, vuln_map)
        ttp_cluster_result == cluster_ttp(inferred, centroid_sim)
    IN  IF "top_similarity" \notin DOMAIN ttp_cluster_result
        THEN Raised("KeyError")
        ELSE CvfResultOf(inferred, ttp_cluster_result)

\* inputs of map_to_cvf
Sentiments == {"neutral", "negative"}
Stances == {"neutral", "critical"}
DeviceLists == {<<>>, <<"Appeal to fear", "Urgent call by experts">>}
FrameLists == {<<>>, <<"Victim of elite corruption">>}
SignalLists == {<<>>, <<"T9999">>, <<"CAT-2024-010", "T9999">>}
LinkLists == {<<>>, <<"Conspiracy">>}
CvfFeatureValues ==
    [sentiment : Sentiments, stance : Stances, rhetorical_devices : DeviceLists,
     narrative_frames : FrameLists, ttp_signals : SignalLists,
     cross_narrative_links : LinkLists]
CvfVulnMaps ==
    [psychological_hits : {<<>>},
     sociocultural_hits : {<<>>, <<"identity-polarization", "institutional-distrust">>}]
CentroidSims ==
    {[n \in DOMAIN ClusteringTtpIds |-> 400400],
     [n \in DOMAIN ClusteringTtpIds |-> IF n \in {3, 7} THEN 650000 ELSE 200000],
     [n \in DOMAIN ClusteringTtpIds |-> IF n = 5 THEN 900000 ELSE 0 - 100000]}

\* one call of map_to_cvf
MapToCvf ==
    /\ pc = "idle"
    /\ \E features \in CvfFeatureValues, vuln_map \in CvfVulnMaps,
          centroid_sim \in CentroidSims,
          seed \in (IF hash_seed = 0 THEN HashSeeds ELSE {hash_seed}) :
        /\ hash_seed' = seed
        /\ cvf_call' = [features |-> features, vuln_map |-> vuln_map,
                        centroid_sim |-> centroid_sim]
        /\ cvf_result' = map_to_cvf(seed, features, vuln_map, centroid_sim)
    /\ pc' = "mapped"
    /\ UNCHANGED <<ta_call, ta_result, ta_prev, identifyVars, riskVars, peripheralVars, extractVars, concurrentVars, ingestVars, translatorVars>>

\* the caller takes the CVFResult or sees the exception
TakeMapped ==
    /\ pc = "mapped"
    /\ pc' = "idle"
    /\ cvf_call' = NoCall
    /\ cvf_result' = NoCall
    /\ UNCHANGED <<identifyVars, riskVars, audienceVars, peripheralVars, extractVars, concurrentVars, ingestVars, translatorVars>>

NextCvf == MapToCvf \/ TakeMapped

SpecCvf == Init /\ [][NextCvf]_vars

(***************************************************************************)
(* PERIPHERAL_ANALYZER (src/peripheral_analyzer.py).  The two scores are   *)
(* kept as exact fractions num/den of the real numbers the floats          *)
(* approximate; a Python list is the record [items |-> <<...>>].           *)
(***************************************************************************)
Fraction(num, den) == [num |-> num, den |-> den]
PyList(items) == [items |-> items]
IsList(v) == DOMAIN v = {"items"}

\* Python truth value of a number or a list
Truthy(v) == IF IsList(v) THEN v.items # <<>> ELSE v.num # 0

\* a or b
PyOr(a, b) == IF Truthy(a) THEN a ELSE b

\* min(1, x) on fractions
MinOne(x) == IF x.num > x.den THEN Fraction(1, 1) ELSE x

RECURSIVE Words(_)
\* str.split(): the whitespace-separated words of s, in order
Words(s) ==
    LET t == LStrip(s)
        first == CHOOSE n \in 0..Len(t) :
                     /\ \A i \in 1..n : ~IsSpace(SubSeq(t, i, i))
                     /\ n = Len(t) \/ IsSpace(SubSeq(t, n + 1, n + 1))
    IN  IF Len(t) = 0 THEN <<>>
        ELSE <<SubSeq(t, 1, first)>> \o Words(SubSeq(t, first + 1, Len(t)))

SentenceEnds == {".", "!", "?"}

RECURSIVE ReSplit(_)
\* re.split(r"[.!?]", text)
ReSplit(text) ==
    LET cut == CHOOSE n \in 0..Len(text) :
                   /\ \A i \in 1..n : SubSeq(text, i, i) \notin SentenceEnds
                   /\ n = Len(text) \/ SubSeq(text, n + 1, n + 1) \in SentenceEnds
    IN  IF cut = Len(text) THEN <<text>>
        ELSE <<SubSeq(text, 1, cut)>> \o ReSplit(SubSeq(text, cut + 2, Len(text)))

\* [s.strip() for s in sentences if s.strip()]
Sentences(text) ==
    LET pieces == ReSplit(text)
        stripped == [n \in DOMAIN pieces |-> Strip(pieces[n])]
    IN  SelectSeq(stripped, LAMBDA s : s # "")

SumOf(numbers) ==
    LET sum[n \in 0..Len(numbers)] == IF n = 0 THEN 0 ELSE sum[n - 1] + numbers[n]
    IN  sum[Len(numbers)]

\* compute_cognitive_load(text), with n sentences of total length S and squared
\* lengths Q, W words of which U are distinct:
\*   0.4 * (S/n)/25 + 0.3 * ((n*Q - S*S)/(n*n))/50 + 0.3 * U/max(W, 1)
compute_cognitive_load(text) ==
    LET sentences == Sentences(text)
        lengths == [n \in DOMAIN sentences |-> Len(Words(sentences[n]))]
        n == Len(sentences)
        S == SumOf(lengths)
        Q == SumOf([k \in DOMAIN lengths |-> lengths[k] * lengths[k]])
        W == Max(Len(Words(text)), 1)
        U == Cardinality(Split(text))
        cog_score == Fraction(16 * S * n * W + 6 * (n * Q - S * S) * W + 300 * U * n * n,
                              1000 * n * n * W)
    IN  IF n = 0 THEN Fraction(0, 1) ELSE MinOne(cog_score)

threat_keyword == <<"danger", "threat", "risk", "attack", "harm">>
inevitable_keywords == <<"inevitable", "cannot stop", "will happen", "no choice", "unavoidable">>
opportunity_keywords == <<"opportunity", "chance", "benefit", "gain">>
scarcity_keywords == <<"limited", "running out", "only a few", "last chance">>

\* the names whose rule fired, in the order of the rules
Fired(names, rules) ==
    LET fired == SelectSeq([n \in DOMAIN names |-> n], LAMBDA n : rules[n])
    IN  [k \in DOMAIN fired |-> names[fired[k]]]

detect_framing_patterns(text) ==
    LET lowered == Lower(text)
    IN  Fired(<<"Threat", "Inevitablility", "Opportunity", "Scarcity">>,
              <<ContainsAny(threat_keyword, lowered),
                ContainsAny(inevitable_keywords, lowered),
                ContainsAny(opportunity_keywords, lowered),
                ContainsAny(scarcity_keywords, lowered)>>)

recency == <<"recently", "just now", "breaking", "newly", "right now">>
crisis == <<"crisis", "emergency", "urgent", "immediately", "disaster">>
countdown == <<"hours left", "minutes left", "before it's too late", "before its too late", "ends soon">>

extract_temporal_cues(text) ==
    LET lowered == Lower(text)
    IN  Fired(<<"Recency Trigger", "Crisis Trigger", "Time Sensitivity Trigger">>,
              <<ContainsAny(recency, lowered),
                ContainsAny(crisis, lowered),
                ContainsAny(countdown, lowered)>>)

\* 0.45 * cognitive_load + 0.35 * (f / 4) + 0.20 * (t / 3), f and t the two list
\* lengths: (108 * cognitive_load + 21 * f + 16 * t) / 240
peripheral_score(cognitive_load, f, t) ==
    Fraction(108 * cognitive_load.num + (21 * f + 16 * t) * cognitive_load.den,
             240 * cognitive_load.den)

\* PERIPHERAL_ANALYZER(text, features, vuln_map, ta); the last three arguments
\* are never read.  `compute_cognitive_load(text) or []` is the empty list when
\* the load is 0.0, and 0.45 * [] raises TypeError.
PERIPHERAL_ANALYZER(text, features, vuln_map, ta) ==
    LET cognitive_load == PyOr(compute_cognitive_load(text), PyList(<<>>))
        framing_patterns == PyOr(PyList(detect_framing_patterns(text)), PyList(<<>>)).items
        temporal_cues == PyOr(PyList(extract_temporal_cues(text)), PyList(<<>>)).items
    IN  IF IsList(cognitive_load) THEN Raised("TypeError")
        ELSE [cognitive_load |-> cognitive_load,
              framing_patterns |-> framing_patterns,
              temporal_cues |-> temporal_cues,
              peripheral_score |->
                  MinOne(peripheral_score(cognitive_load, Len(framing_patterns),
                                          Len(temporal_cues)))]

\* texts built from two parts around a separator: blank, punctuation only, one
\* or two sentences, repeated words, framing and temporal keywords, a long sentence
ManyWords == "a b c d e f g h i j k l m n o p q r s t u v w x y z a b"
TextParts == {"", "  ", "Act now", "Urgent threat and crisis", "the the the last chance", ManyWords}
TextSeparators == {"", ". ", "!", "?!.."}
PeripheralTexts == {a \o sep \o b : a \in TextParts, sep \in TextSeparators, b \in TextParts}

\* one call of PERIPHERAL_ANALYZER
AnalyzePeripheral ==
    /\ pc = "idle"
    /\ \E text \in PeripheralTexts :
        /\ peripheral_call' = [text |-> text]
        /\ peripheral' = PERIPHERAL_ANALYZER(text, None, None, None)
    /\ pc' = "perceived"
    /\ UNCHANGED <<identifyVars, riskVars, audienceVars, cvfVars, extractVars, concurrentVars, ingestVars, translatorVars>>

\* the caller takes the PeripheralSignals or sees the exception
TakePeripheral ==
    /\ pc = "perceived"
    /\ pc' = "idle"
    /\ peripheral_call' = NoCall
    /\ peripheral' = NoCall
    /\ UNCHANGED <<identifyVars, riskVars, audienceVars, cvfVars, extractVars, concurrentVars, ingestVars, translatorVars>>

NextPeripheral == AnalyzePeripheral \/ TakePeripheral

SpecPeripheral == Init /\ [][NextPeripheral]_vars

(***************************************************************************)
(* extract_narrative_features (src/AI_narrative_extraction.py).  A value   *)
(* json.loads returns is a record tagged with its JSON type; Python's None *)
(* is the value of JSON null.                                              *)
(***************************************************************************)
CHUNK_SIZE == 1800
OVERLAP == 200
max_retries == 3

JsonNull == [type |-> "null"]
JsonNumber(value) == [type |-> "number", value |-> value]
JsonString(value) == [type |-> "string", value |-> value]
JsonArray(items) == [type |-> "array", items |-> items]
JsonObject(members) == [type |-> "object", members |-> members]
JSONDecodeError == [type |-> "JSONDecodeError"]

\* Python truth value of a parsed value
JsonTruthy(v) ==
    CASE v.type = "null" -> FALSE
      [] v.type = "number" -> v.value # 0
      [] v.type = "string" -> v.value # ""
      [] v.type = "array" -> v.items # <<>>
      [] v.type = "object" -> DOMAIN v.members # {}

\* text[a:b] on strings
StrSlice(text, a, b) ==
    LET lo == PyIndex(Len(text), a)
        hi == PyIndex(Len(text), b)
    IN  IF lo >= hi THEN "" ELSE SubSeq(text, lo + 1, hi)

\* text.rfind('.', a, b)
RFindPeriod(text, a, b) ==
    LET lo == PyIndex(Len(text), a)
        hi == PyIndex(Len(text), b)
        found == {p \in lo..(hi - 1) : SubSeq(text, p + 1, p + 1) = "."}
    IN  IF found = {} THEN 0 - 1 ELSE CHOOSE p \in found : \A q \in found : q <= p

\* one iteration of the loop of chunk_text: the chunk it cuts and the next start
ChunkStep(text, from, size, overlap) ==
    LET window_end == Min(from + size, Len(text))
        period_pos == RFindPeriod(text, from, window_end)
        end == IF window_end < Len(text) /\ period_pos # 0 - 1
               THEN period_pos + 1 ELSE window_end
    IN  [chunk |-> Strip(StrSlice(text, from, end)),
         end |-> end,
         start |-> IF end < Len(text) THEN end - overlap ELSE end]

RECURSIVE ChunksFrom(_, _, _, _)
\* the chunks appended from the given start position on
ChunksFrom(text, from, size, overlap) ==
    IF from >= Len(text) THEN <<>>
    ELSE LET step == ChunkStep(text, from, size, overlap)
         IN  (IF step.chunk # "" THEN <<step.chunk>> ELSE <<>>)
                 \o ChunksFrom(text, step.start, size, overlap)

chunk_text(text, size, overlap) == ChunksFrom(text, 0, size, overlap)

\* what the server does during one run_llama call: the number of attempts that
\* raise, and the content of the first response that arrives
ServerBehaviour(failures, content) == [failures |-> failures, content |-> content]

\* run_llama(prompt, max_retries): the stripped content of the first successful
\* attempt, None after max_retries failed attempts
run_llama(prompt, retries, server) ==
    IF Strip(prompt) = "" THEN Raised("ValueError")
    ELSE IF server.failures >= retries THEN None
    ELSE Strip(server.content)

\* json.loads on the contents the server is made to answer with
ActorsOnly == "{\"actors\": [\"Leaders\"]}"
Malformed == "{\"actors\": \" Bots \", \"claims\": [\"\", \" b \", \"A\"], \"sentiment\": \" Negative\", \"stance\": 5}"
Complete == "{\"actors\": [\"Leaders\"], \"claims\": [], \"evidence\": [], \"sentiment\": \"positive\", \"stance\": \"critical\", \"narrative_frames\": [\"Leaders are corrupt\"], \"rhetorical_devices\": [], \"ttp_signals\": [], \"cross_narrative_links\": []}"
Contents == {"not json", "", "[1, 2]", "[]", "7", "{}", ActorsOnly, Malformed, Complete}

JsonLoads ==
    [raw \in Contents |->
        CASE raw = "[1, 2]" -> JsonArray(<<JsonNumber(1), JsonNumber(2)>>)
          [] raw = "[]" -> JsonArray(<<>>)
          [] raw = "7" -> JsonNumber(7)
          [] raw = "{}" -> JsonObject(<<>>)
          [] raw = ActorsOnly ->
                JsonObject([actors |-> JsonArray(<<JsonString("Leaders")>>)])
          [] raw = Malformed ->
                JsonObject([actors |-> JsonString(" Bots "),
                            claims |-> JsonArray(<<JsonString(""), JsonString(" b "),
                                                   JsonString("A")>>),
                            sentiment |-> JsonString(" Negative"),
                            stance |-> JsonNumber(5)])
          [] raw = Complete ->
                JsonObject([actors |-> JsonArray(<<JsonString("Leaders")>>),
                            claims |-> JsonArray(<<>>),
                            evidence |-> JsonArray(<<>>),
                            sentiment |-> JsonString("positive"),
                            stance |-> JsonString("critical"),
                            narrative_frames |->
                                JsonArray(<<JsonString("Leaders are corrupt")>>),
                            rhetorical_devices |-> JsonArray(<<>>),
                            ttp_signals |-> JsonArray(<<>>),
                            cross_narrative_links |-> JsonArray(<<>>)])
          [] OTHER -> JSONDecodeError]

\* analyze_chunk(chunk): the parsed reply, None when there is no reply or it
\* does not parse
analyze_chunk(chunk, server) ==
    LET prompt == "Text to analyze:\n<<<\n" \o chunk \o "\n>>>"
        raw_output == run_llama(prompt, max_retries, server)
    IN  IF raw_output = None \/ raw_output = "" THEN JsonNull
        ELSE IF JsonLoads[raw_output] = JSONDecodeError THEN JsonNull
        ELSE JsonLoads[raw_output]

list_keys == <<"actors", "claims", "evidence", "narrative_frames", "rhetorical_devices", "ttp_signals", "cross_narrative_links">>
SchemaKeys == {list_keys[n] : n \in DOMAIN list_keys} \cup {"sentiment", "stance"}

\* out.get(key, default)
Get(out, key, default) == IF key \in DOMAIN out.members THEN out.members[key] ELSE default

\* what one output adds to merged[key]
ListContribution(out, key) ==
    LET value == Get(out, key, JsonArray(<<>>))
    IN  IF value.type = "array"
        THEN {Strip(value.items[n].value) :
                 n \in {m \in DOMAIN value.items : JsonTruthy(value.items[m])}}
        ELSE IF value.type = "string" /\ Strip(value.value) # ""
        THEN {Strip(value.value)}
        ELSE {}

\* what the outputs append to merged[key], key "sentiment" or "stance"
ScalarVotes(outputs, key, valid) ==
    LET values == [n \in DOMAIN outputs |-> Get(outputs[n], key, JsonString("neutral"))]
        strings == SelectSeq(values, LAMBDA v : v.type = "string")
    IN  [n \in DOMAIN strings |->
            IF Lower(Strip(strings[n].value)) \in valid
            THEN Lower(Strip(strings[n].value)) ELSE "neutral"]

\* Counter(votes).most_common(1)[0][0], "neutral" when there is no vote
MajorityVote(votes) ==
    LET count(v) == Cardinality({n \in DOMAIN votes : votes[n] = v})
        best == CHOOSE n \in DOMAIN votes :
                    /\ \A m \in DOMAIN votes : count(votes[m]) <= count(votes[n])
                    /\ \A m \in 1..(n - 1) : count(votes[m]) < count(votes[n])
    IN  IF votes = <<>> THEN "neutral" ELSE votes[best]

CodePoints == " 0123456789ABCDEFGHIJKLMNOPQRSTUVWXYZabcdefghijklmnopqrstuvwxyz"
CodePoint(c) == CHOOSE r \in 1..Len(CodePoints) : SubSeq(CodePoints, r, r) = c

RECURSIVE StrLess(_, _)
\* a < b on Python strings
StrLess(a, b) ==
    IF b = "" THEN FALSE
    ELSE IF a = "" THEN TRUE
    ELSE IF SubSeq(a, 1, 1) # SubSeq(b, 1, 1)
    THEN CodePoint(SubSeq(a, 1, 1)) < CodePoint(SubSeq(b, 1, 1))
    ELSE StrLess(SubSeq(a, 2, Len(a)), SubSeq(b, 2, Len(b)))

RECURSIVE SortedList(_)
\* sorted(list(strings))
SortedList(strings) ==
    IF strings = {} THEN <<>>
    ELSE LET least == CHOOSE x \in strings : \A y \in strings \ {x} : StrLess(x, y)
         IN  <<least>> \o SortedList(strings \ {least})

ErrorDict(message) == [error |-> message]

\* merge_outputs(outputs): list_keys is assigned inside the loop, after the
\* `continue` that skips an output which is not a dict, and read after the loop
merge_outputs(outputs) ==
    LET dicts == SelectSeq(outputs, LAMBDA out : out.type = "object")
        merged(key) == SortedList(UNION {ListContribution(dicts[n], key) : n \in DOMAIN dicts})
    IN  IF outputs = <<>> THEN ErrorDict("No valid outputs to merge")
        ELSE IF dicts = <<>> THEN Raised("UnboundLocalError")
        ELSE [actors |-> merged("actors"),
              claims |-> merged("claims"),
              evidence |-> merged("evidence"),
              narrative_frames |-> merged("narrative_frames"),
              rhetorical_devices |-> merged("rhetorical_devices"),
              ttp_signals |-> merged("ttp_signals"),
              cross_narrative_links |-> merged("cross_narrative_links"),
              sentiment |-> MajorityVote(ScalarVotes(dicts, "sentiment",
                                {"positive", "negative", "neutral"})),
              stance |-> MajorityVote(ScalarVotes(dicts, "stance",
                                {"supportive", "critical", "uncertain", "neutral"}))]

\* analyze_text(text), the server behaving as servers[n] for the n-th chunk
analyze_text(text_chunks, servers) ==
    LET parsed == [n \in DOMAIN text_chunks |-> analyze_chunk(text_chunks[n], servers[n])]
        results == SelectSeq(parsed, JsonTruthy)
    IN  IF text_chunks = <<>> THEN ErrorDict("No text to analyze")
        ELSE IF results = <<>> THEN ErrorDict("No valid outputs produced")
        ELSE merge_outputs(results)

SafeDefaults ==
    [actors |-> <<>>, claims |-> <<>>, evidence |-> <<>>, sentiment |-> "neutral",
     stance |-> "neutral", narrative_frames |-> <<>>, rhetorical_devices |-> <<>>,
     ttp_signals |-> <<>>, cross_narrative_links |-> <<>>]

RECURSIVE Repeat(_, _)
Repeat(s, times) ==
    IF times = 0 THEN ""
    ELSE IF times % 2 = 1 THEN s \o Repeat(s, times - 1)
    ELSE LET half == Repeat(s, times \div 2) IN half \o half

\* a blank text, a text of one chunk, and a text longer than CHUNK_SIZE
LongText == Repeat("Leaders spread fear. ", 100)
ExtractionTexts == {"", "   ", "Leaders spread fear.", LongText}
ChunksOf == [text \in ExtractionTexts |-> chunk_text(text, CHUNK_SIZE, OVERLAP)]
ServerBehaviours == {ServerBehaviour(failures, IF failures >= max_retries THEN "" ELSE content) : failures \in 0..max_retries, content \in Contents}

\* extract_narrative_features(text)
extract_narrative_features(text, servers) ==
    LET result == analyze_text(ChunksOf[text], servers)
    IN  IF Strip(text) = "" THEN SafeDefaults
        ELSE IF "error" \in DOMAIN result THEN SafeDefaults
        ELSE result

\* one call of extract_narrative_features; the server is called once per chunk
Extract ==
    /\ pc = "idle"
    /\ \E text \in ExtractionTexts :
       \E servers \in [DOMAIN ChunksOf[text] -> ServerBehaviours] :
        /\ extract_call' = [text |-> text, servers |-> servers]
        /\ extract_result' = extract_narrative_features(text, servers)
    /\ pc' = "extracted"
    /\ UNCHANGED <<identifyVars, riskVars, audienceVars, cvfVars, peripheralVars, concurrentVars, llamaVars, chunkVars, ingestVars, translatorVars>>

\* the caller takes the dict or sees the exception
TakeExtracted ==
    /\ pc = "extracted"
    /\ pc' = "idle"
    /\ extract_call' = NoCall
    /\ extract_result' = NoCall
    /\ UNCHANGED <<identifyVars, riskVars, audienceVars, cvfVars, peripheralVars, concurrentVars, llamaVars, chunkVars, ingestVars, translatorVars>>

NextExtract == Extract \/ TakeExtracted

SpecExtract == Init /\ [][NextExtract]_vars

(***************************************************************************)
(* run_llama step by step.  Each attempt of the loop is one call of        *)
(* client.chat.completions.create, which returns a response or raises;     *)
(* llama_log records the server calls and the sleeps in the order they     *)
(* happen.                                                                 *)
(***************************************************************************)
Prompts == {"", "  ", "Text to analyze"}
RetryDelays == {0, 1, 5}
LlamaContents == {" {} ", "not json", ""}

\* an entry of llama_log: a server call with the content it returned, or a sleep
Event(event, content, seconds) == [event |-> event, content |-> content, seconds |-> seconds]

\* what a caller sees of a call that returned
ReturnValue(value) == [returned |-> value]

notLlamaVars == <<pc, identifyVars, riskVars, audienceVars, cvfVars, peripheralVars, extract_call, extract_result, chunkVars, concurrentVars, ingestVars, translatorVars>>

\* run_llama is entered: the prompt test and attempt = 0
EnterLlama ==
    /\ pc = "idle"
    /\ llama_pc = "idle"
    /\ \E prompt \in Prompts, retries \in 0..MaxRetries, retry_delay \in RetryDelays :
        /\ llama_call' = [prompt |-> prompt, max_retries |-> retries,
                          retry_delay |-> retry_delay]
        /\ IF Strip(prompt) = ""
           THEN /\ llama_result' = Raised("ValueError")
                /\ llama_pc' = "returned"
           ELSE /\ llama_result' = NoCall
                /\ llama_pc' = "while"
    /\ attempt' = 0
    /\ llama_log' = <<>>
    /\ UNCHANGED notLlamaVars

\* while attempt < max_retries; the function ends, and returns None, when the
\* test fails
TestAttempt ==
    /\ llama_pc = "while"
    /\ IF attempt < llama_call.max_retries
       THEN /\ llama_pc' = "create"
            /\ UNCHANGED llama_result
       ELSE /\ llama_pc' = "returned"
            /\ llama_result' = ReturnValue(None)
    /\ UNCHANGED <<llama_call, attempt, llama_log, notLlamaVars>>

\* the call of the server returns a response: return content
CreateReturns ==
    /\ llama_pc = "create"
    /\ \E content \in LlamaContents :
        /\ llama_result' = ReturnValue(Strip(content))
        /\ llama_log' = Append(llama_log, Event("succeeded", content, 0))
    /\ llama_pc' = "returned"
    /\ UNCHANGED <<llama_call, attempt, notLlamaVars>>

\* the sleep taken after every failed attempt
RetryAlways(attempts, retries) == TRUE

\* if attempt < max_retries, in the except block
Retry(attempts, retries) == attempts < retries

\* the call of the server raises: the except block up to the sleep or the return
CreateRaises ==
    /\ llama_pc = "create"
    /\ attempt' = attempt + 1
    /\ llama_log' = Append(llama_log, Event("failed", "", 0))
    /\ IF Retry(attempt + 1, llama_call.max_retries)
       THEN /\ llama_pc' = "sleep"
            /\ UNCHANGED llama_result
       ELSE /\ llama_pc' = "returned"
            /\ llama_result' = ReturnValue(None)
    /\ UNCHANGED <<llama_call, notLlamaVars>>

\* time.sleep(retry_delay) returns
Sleep ==
    /\ llama_pc = "sleep"
    /\ llama_log' = Append(llama_log, Event("sleep", "", llama_call.retry_delay))
    /\ llama_pc' = "while"
    /\ UNCHANGED <<llama_call, attempt, llama_result, notLlamaVars>>

\* the caller takes what run_llama returned
TakeLlama ==
    /\ llama_pc = "returned"
    /\ llama_pc' = "idle"
    /\ llama_call' = NoCall
    /\ attempt' = 0
    /\ llama_log' = <<>>
    /\ llama_result' = NoCall
    /\ UNCHANGED notLlamaVars

LlamaStep == TestAttempt \/ CreateReturns \/ CreateRaises \/ Sleep

NextLlama == EnterLlama \/ LlamaStep \/ TakeLlama

SpecLlama == Init /\ [][NextLlama]_vars

\* a call of the server returns or raises, and a sleep ends: a call of run_llama
\* that can take a step takes one
SpecLlamaFair == SpecLlama /\ WF_vars(LlamaStep)

(***************************************************************************)
(* chunk_text step by step, one iteration of its loop per step.  The loop  *)
(* is followed for MaxIterations iterations.  Next to texts longer than    *)
(* CHUNK_SIZE, cut with the default size and overlap, the function is      *)
(* called on short texts with a small size and overlap.                    *)
(***************************************************************************)
\* a period as the 200th character and none after it; a period in the first three
\* characters and none after it
LoopingText == Repeat("a", 199) \o "." \o Repeat("b", 2000)
BackwardText == "Hi." \o Repeat("a", 2000)
DefaultTexts == {LongText, LoopingText, BackwardText}

MaxTextLen == 5
SmallSizes == {3, 4}
SmallOverlaps == {1, 2}

RECURSIVE TextsOfLength(_)
TextsOfLength(n) ==
    IF n = 0 THEN {""}
    ELSE {t \o c : t \in TextsOfLength(n - 1), c \in {"a", ".", " "}}

SmallTexts == UNION {TextsOfLength(n) : n \in 0..MaxTextLen}

ChunkCalls ==
    [text : DefaultTexts, size : {CHUNK_SIZE}, overlap : {OVERLAP}]
    \cup [text : SmallTexts, size : SmallSizes, overlap : SmallOverlaps]

notChunkVars == <<pc, identifyVars, riskVars, audienceVars, cvfVars, peripheralVars, extract_call, extract_result, llamaVars, concurrentVars, ingestVars, translatorVars>>

\* chunk_text is entered: chunks = [], start = 0
EnterChunkText ==
    /\ pc = "idle"
    /\ chunk_pc = "idle"
    /\ \E call \in ChunkCalls : chunk_call' = call
    /\ chunk_pc' = "while"
    /\ start' = 0
    /\ chunks' = <<>>
    /\ starts' = <<0>>
    /\ spans' = <<>>
    /\ UNCHANGED notChunkVars

\* while start < len(text) holds: one iteration of the loop
ChunkIteration ==
    /\ chunk_pc = "while"
    /\ start < Len(chunk_call.text)
    /\ Len(spans) < MaxIterations
    /\ LET step == ChunkStep(chunk_call.text, start, chunk_call.size, chunk_call.overlap)
           n == Len(chunk_call.text)
       IN  /\ chunks' = IF step.chunk # "" THEN Append(chunks, step.chunk) ELSE chunks
           /\ start' = step.start
           /\ starts' = Append(starts, step.start)
           /\ spans' = Append(spans, [from |-> PyIndex(n, start), to |-> PyIndex(n, step.end),
                                      appended |-> step.chunk # ""])
    /\ UNCHANGED <<chunk_pc, chunk_call, notChunkVars>>

\* while start < len(text) fails: return chunks
ReturnChunks ==
    /\ chunk_pc = "while"
    /\ start >= Len(chunk_call.text)
    /\ chunk_pc' = "returned"
    /\ UNCHANGED <<chunk_call, start, chunks, starts, spans, notChunkVars>>

\* the caller takes the chunks, or gives up on a call that is still in its loop
TakeChunks ==
    /\ \/ chunk_pc = "returned"
       \/ chunk_pc = "while" /\ Len(spans) = MaxIterations
    /\ chunk_pc' = "idle"
    /\ chunk_call' = NoCall
    /\ start' = 0
    /\ chunks' = <<>>
    /\ starts' = <<>>
    /\ spans' = <<>>
    /\ UNCHANGED notChunkVars

NextChunk == EnterChunkText \/ ChunkIteration \/ ReturnChunks \/ TakeChunks

SpecChunk == Init /\ [][NextChunk]_vars

(***************************************************************************)
(* ingest (src/ingest.py) and INPUT_LAYER (src/input_layer.py), as the     *)
(* /analyze endpoint runs them: ingest on the request body, then           *)
(* run_pipeline, whose first statement is INPUT_LAYER on ingest's result.  *)
(* The request body is a parsed JSON value.                                *)
(***************************************************************************)
\* str(v) on a parsed JSON scalar; the numbers are single digits
PyStr(v) ==
    CASE v.type = "null" -> "None"
      [] v.type = "string" -> v.value
      [] v.type = "number" -> SubSeq("0123456789", v.value + 1, v.value + 1)

\* normalize_string(value), the same in both modules
normalize_string(value) ==
    IF value.type = "null" THEN JsonNull ELSE JsonString(Strip(PyStr(value)))

\* normalize_list(value), the same in both modules
normalize_list(value) ==
    IF value.type = "null" THEN JsonArray(<<>>)
    ELSE IF value.type = "array"
    THEN JsonArray([n \in DOMAIN value.items |-> JsonString(Strip(PyStr(value.items[n])))])
    ELSE JsonArray(<<JsonString(Strip(PyStr(value)))>>)

\* normalize_optional_field(value)
normalize_optional_field(value) ==
    IF value.type = "null" THEN JsonNull
    ELSE IF value.type = "array" THEN normalize_list(value)
    ELSE IF value.type = "object" THEN value
    ELSE normalize_string(value)

required_ta_fields == <<"demographics", "political_orientation", "group_identities", "known_vulnerabilities", "information_channels">>
optional_fields == <<"cultural_context", "psychological_markers", "current_stressors", "historical_grievances", "trust_landscape", "media_literacy_level", "community_structure", "polarization_vectors">>

Elements(list) == {list[n] : n \in DOMAIN list}

\* ta_raw after the assignments and deletions of ingest
NormalizedTa(ta_raw) ==
    LET members == ta_raw.members
        kept == {k \in DOMAIN members :
                    ~(k \in Elements(optional_fields) /\ members[k].type = "null")}
    IN  JsonObject(
            [k \in kept |->
                IF k \in {"group_identities", "known_vulnerabilities", "information_channels"}
                THEN normalize_list(members[k])
                ELSE IF k = "political_orientation" THEN normalize_string(members[k])
                ELSE members[k]])

\* ingest(payload)
ingest(payload) ==
    IF payload.type # "object" THEN Raised("ValidationError")
    ELSE IF "narrative" \notin DOMAIN payload.members THEN Raised("ValidationError")
    ELSE IF payload.members["narrative"].type # "string" THEN Raised("ValidationError")
    ELSE IF Strip(payload.members["narrative"].value) = "" THEN Raised("ValidationError")
    ELSE IF "target_audience" \notin DOMAIN payload.members THEN Raised("ValidationError")
    ELSE IF payload.members["target_audience"].type # "object"
    THEN Raised("ValidationError")
    ELSE IF \E field \in Elements(required_ta_fields) :
                field \notin DOMAIN payload.members["target_audience"].members
    THEN Raised("ValidationError")
    ELSE IF payload.members["target_audience"].members["demographics"].type # "object"
    THEN Raised("ValidationError")
    ELSE [narrative_text |-> Strip(payload.members["narrative"].value),
          ta_raw |-> NormalizedTa(payload.members["target_audience"])]

\* trust_raw.get(...) can be called: trust_raw is a dict
HasGet(trust_raw) == trust_raw.type = "object"

\* Demographics(...) of INPUT_LAYER
DemographicsOf(demo_raw) ==
    [age_range |-> normalize_string(Get(demo_raw, "age_range", JsonNull)),
     location |-> normalize_string(Get(demo_raw, "location", JsonNull)),
     education_level |-> normalize_string(Get(demo_raw, "education_level", JsonNull))]

\* TrustLandscape(...) of INPUT_LAYER
TrustLandscapeOf(trust_raw) ==
    [trusted_institutions |->
         normalize_list(Get(trust_raw, "trusted_institutions", JsonNull)),
     distrusted_institutions |->
         normalize_list(Get(trust_raw, "distrusted_institutions", JsonNull))]

\* INPUT_LAYER(narrative_text, ta_raw), ta_raw a dict
INPUT_LAYER(narrative_text, ta_raw) ==
    LET trust_raw == Get(ta_raw, "trust_landscape", JsonNull)
        demo_raw == ta_raw.members["demographics"]
    IN  IF Strip(narrative_text) = "" THEN Raised("ValueError")
        ELSE IF \E field \in Elements(required_ta_fields) : field \notin DOMAIN ta_raw.members
        THEN Raised("ValueError")
        ELSE IF demo_raw.type # "object" THEN Raised("AttributeError")
        ELSE IF JsonTruthy(trust_raw) /\ ~HasGet(trust_raw) THEN Raised("AttributeError")
        ELSE [narrative |->
                  [raw_text |-> Strip(narrative_text),
                   metadata |-> [source |-> Get(ta_raw, "source", JsonString("unknown"))]],
              target_audience |->
                  [demographics |-> DemographicsOf(demo_raw),
                   political_orientation |->
                       normalize_string(ta_raw.members["political_orientation"]),
                   group_identities |-> normalize_list(ta_raw.members["group_identities"]),
                   known_vulnerabilities |->
                       normalize_list(ta_raw.members["known_vulnerabilities"]),
                   information_channels |->
                       normalize_list(ta_raw.members["information_channels"]),
                   trust_landscape |->
                       IF JsonTruthy(trust_raw) THEN TrustLandscapeOf(trust_raw)
                       ELSE JsonNull,
                   optional |->
                       [field \in Elements(optional_fields) \ {"trust_landscape"} |->
                           normalize_optional_field(Get(ta_raw, field, JsonNull))]]]

\* request bodies: a member that is left out is Absent
Absent == [type |-> "absent"]
ObjectOf(members) ==
    JsonObject([k \in {m \in DOMAIN members : members[m] # Absent} |-> members[k]])

NarrativeValues == {Absent, JsonNumber(7), JsonString("   "), JsonString(" Leaders spread fear. ")}
DemographicsValues == {Absent, JsonString("adults"), JsonObject([age_range |-> JsonString(" 18-35 ")])}
OrientationValues == {JsonNull, JsonString(" left "), JsonNumber(7)}
IdentityValues == {JsonNull, JsonString("farmers"), JsonArray(<<JsonString(" a "), JsonNumber(7)>>)}
VulnerabilityValues == {Absent, JsonArray(<<>>)}
TrustValues ==
    {Absent, JsonNull, JsonString(""), JsonString("low"), JsonNumber(0), JsonNumber(7),
     JsonArray(<<JsonString("press")>>), JsonObject(<<>>),
     JsonObject([trusted_institutions |-> JsonString("church")])}
ContextValues == {Absent, JsonNull, JsonString(" rural ")}

TargetAudiences ==
    {Absent, JsonNull, JsonString("everyone")}
    \cup {ObjectOf([demographics |-> demographics, political_orientation |-> orientation,
                    group_identities |-> identities, known_vulnerabilities |-> vulnerabilities,
                    information_channels |-> JsonArray(<<JsonString("radio")>>),
                    trust_landscape |-> trust, cultural_context |-> context]) :
              demographics \in DemographicsValues, orientation \in OrientationValues,
              identities \in IdentityValues, vulnerabilities \in VulnerabilityValues,
              trust \in TrustValues, context \in ContextValues}

RequestBodies ==
    {JsonArray(<<>>), JsonString("text")}
    \cup {ObjectOf([narrative |-> narrative, target_audience |-> target_audience]) :
              narrative \in NarrativeValues, target_audience \in TargetAudiences}

IsRaised(v) == DOMAIN v = {"raised"}

\* one request to /analyze up to the return of INPUT_LAYER
Ingest ==
    /\ pc = "idle"
    /\ \E payload \in RequestBodies :
        LET clean == ingest(payload)
        IN  /\ ingest_call' = payload
            /\ ingest_result' = clean
            /\ input_result' = IF IsRaised(clean) THEN NoCall
                                ELSE INPUT_LAYER(clean.narrative_text, clean.ta_raw)
    /\ pc' = "ingested"
    /\ UNCHANGED <<identifyVars, riskVars, audienceVars, cvfVars, peripheralVars, extractVars, concurrentVars, translatorVars>>

\* the response is sent; the per-request data is dropped
TakeIngested ==
    /\ pc = "ingested"
    /\ pc' = "idle"
    /\ ingest_call' = NoCall
    /\ ingest_result' = NoCall
    /\ input_result' = NoCall
    /\ UNCHANGED <<identifyVars, riskVars, audienceVars, cvfVars, peripheralVars, extractVars, concurrentVars, translatorVars>>

NextIngest == Ingest \/ TakeIngested

SpecIngest == Init /\ [][NextIngest]_vars

(***************************************************************************)
(* Translator.get called from several threads of one process.  A thread    *)
(* tests _instance, runs the pipeline constructor, assigns the class       *)
(* attribute and reads it back for the return, each as a step of its own;  *)
(* the pipeline objects are numbered in the order of their construction.   *)
(***************************************************************************)
notTranslatorVars == <<pc, identifyVars, riskVars, audienceVars, cvfVars, peripheralVars, extractVars, concurrentVars, ingestVars>>

\* a thread calls Translator.get()
CallGet(thread) ==
    /\ pc = "idle"
    /\ get_pc[thread] = "idle"
    /\ get_pc' = [get_pc EXCEPT ![thread] = "test"]
    /\ get_result' = [get_result EXCEPT ![thread] = NoCall]
    /\ UNCHANGED <<Translator_instance, pipelines, constructed, notTranslatorVars>>

\* if cls._instance is None
TestInstance(thread) ==
    /\ get_pc[thread] = "test"
    /\ get_pc' = [get_pc EXCEPT ![thread] =
                      IF Translator_instance = 0 THEN "construct" ELSE "return"]
    /\ UNCHANGED <<Translator_instance, pipelines, constructed, get_result, notTranslatorVars>>

\* pipeline("translation", model=...) builds a new object
Construct(thread) ==
    /\ get_pc[thread] = "construct"
    /\ pipelines' = pipelines + 1
    /\ constructed' = [constructed EXCEPT ![thread] = pipelines + 1]
    /\ get_pc' = [get_pc EXCEPT ![thread] = "assign"]
    /\ UNCHANGED <<Translator_instance, get_result, notTranslatorVars>>

\* cls._instance = <the object built>
AssignInstance(thread) ==
    /\ get_pc[thread] = "assign"
    /\ Translator_instance' = constructed[thread]
    /\ constructed' = [constructed EXCEPT ![thread] = 0]
    /\ get_pc' = [get_pc EXCEPT ![thread] = "return"]
    /\ UNCHANGED <<pipelines, get_result, notTranslatorVars>>

\* return cls._instance
ReturnInstance(thread) ==
    /\ get_pc[thread] = "return"
    /\ get_result' = [get_result EXCEPT ![thread] = ReturnValue(Translator_instance)]
    /\ get_pc' = [get_pc EXCEPT ![thread] = "idle"]
    /\ UNCHANGED <<Translator_instance, pipelines, constructed, notTranslatorVars>>

NextTranslator ==
    \E thread \in Threads :
        \/ CallGet(thread)
        \/ TestInstance(thread)
        \/ Construct(thread)
        \/ AssignInstance(thread)
        \/ ReturnInstance(thread)

SpecTranslator == Init /\ [][NextTranslator]_vars

(***************************************************************************)
(* Concurrent analyses.  Each call of identify_ttp_dual,                   *)
(* analyze_target_audience or RISK_SCORER runs as a sequence of steps that *)
(* interleave with the steps of the other calls.  The registries are the   *)
(* module-level state of src/ttp_id.py; the lists a call builds are locals *)
(* of its own frame.                                                       *)
(***************************************************************************)
\* every call keeps cat_matches and its other lists in one frame for all calls
SharedFrame(call) == 1

\* the frame that holds the locals of a call: cat_matches = [], disarm_matches = [],
\* final_results = [] and the hit lists are assigned inside the functions
FrameOf(call) == call

IdentifyArguments ==
    {[function |-> "identify_ttp_dual", narrative_text |-> "", top_k_per_registry |-> 1,
      min_confidence |-> 450000, prioritize_cognitive |-> TRUE,
      cat_sim |-> [i \in CAT_EMBEDDINGS |-> 900000],
      disarm_sim |-> [i \in DISARM_EMBEDDINGS |-> 900000]],
     [function |-> "identify_ttp_dual", narrative_text |-> "Leaders spread fear",
      top_k_per_registry |-> 1, min_confidence |-> 450000, prioritize_cognitive |-> TRUE,
      cat_sim |-> [i \in CAT_EMBEDDINGS |-> 900000],
      disarm_sim |-> [i \in DISARM_EMBEDDINGS |-> 450400]],
     [function |-> "identify_ttp_dual", narrative_text |-> "Bots push MALWARE",
      top_k_per_registry |-> MaxK, min_confidence |-> 200000, prioritize_cognitive |-> FALSE,
      cat_sim |-> [i \in CAT_EMBEDDINGS |-> 450400],
      disarm_sim |-> [i \in DISARM_EMBEDDINGS |-> 900000]]}

AudienceArguments ==
    {[function |-> "analyze_target_audience",
      features |-> [emotional_features |-> <<"Fear of collapse", "public outrage", "Urgency">>,
                    rhetorical_features |-> <<"elite corruption">>,
                    identity_features |-> <<"the enemy">>],
      ta |-> [political_orientation |-> "Right",
              group_identities |-> <<"Workers", "Parents", "Religious groups">>,
              known_vulnerabilities |-> <<"Distrust of media">>,
              information_channels |-> <<>>],
      identified_ttps |-> <<[name |-> "Habituation", confidence |-> 900]>>]}

RiskArguments ==
    {[function |-> "RISK_SCORER",
      c |-> [psychological_hits |-> <<"fear-response">>,
             sociocultural_hits |-> <<"identity-polarization">>,
             alignment_score |-> AlignUnit, framing_patterns |-> <<"Threat", "Invasion">>,
             temporal_cues |-> <<>>,
             identified_ttps |-> <<[name |-> "Establish Your Identity", confidence |-> 900]>>,
             narrative_text |-> "Sanctions hit the port"]]}

ConcurrentArguments == IdentifyArguments \cup AudienceArguments \cup RiskArguments

InProgress(call) == analysis_pc[call] \notin {"idle", "returned"}

\* a step of `call` is taken while the other calls in progress are suspended
StepOf(call, next_pc) ==
    /\ analysis_pc' = [analysis_pc EXCEPT ![call] = next_pc]
    /\ overlapped' = [other \in Analyses |->
                         IF other # call /\ InProgress(other) THEN TRUE
                         ELSE overlapped[other]]
    /\ UNCHANGED <<pc, registries, identifyVars, riskVars, ta_call, ta_result, ta_prev, cvfVars, peripheralVars, extractVars, ingestVars, translatorVars>>

\* the call returns: the caller gets the value, the frame is discarded
Return(call, value) ==
    /\ analysis_out' = [analysis_out EXCEPT ![call] = value]
    /\ locals' = [locals EXCEPT ![FrameOf(call)] = NoLocals]
    /\ StepOf(call, "returned")

\* the call assigns one of its locals
Assign(call, next_pc, assigned) ==
    /\ locals' = [locals EXCEPT ![FrameOf(call)] = assigned]
    /\ StepOf(call, next_pc)
    /\ UNCHANGED analysis_out

\* a caller enters one of the three functions
Enter(call) ==
    /\ analysis_pc[call] = "idle"
    /\ \E arguments \in ConcurrentArguments :
        analysis_in' = [analysis_in EXCEPT ![call] = arguments]
    /\ analysis_pc' = [analysis_pc EXCEPT ![call] = "entered"]
    /\ overlapped' = [overlapped EXCEPT ![call] = FALSE]
    /\ UNCHANGED <<pc, registries, locals, analysis_out, identifyVars, riskVars, audienceVars, cvfVars, peripheralVars, extractVars, ingestVars, translatorVars>>

Entered(call, function) ==
    analysis_pc[call] = "entered" /\ analysis_in[call].function = function

\* identify_ttp_dual up to cat_matches.sort(...), or its return on blank text
MatchCat(call) ==
    LET in == analysis_in[call]
        frame == locals[FrameOf(call)]
    IN  /\ Entered(call, "identify_ttp_dual")
        /\ IF IsBlank[in.narrative_text]
           THEN Return(call, <<>>)
           ELSE Assign(call, "cat_matched",
                       [frame EXCEPT !.cat_matches =
                           cat_matches(in.cat_sim, in.narrative_text, in.min_confidence,
                                       in.prioritize_cognitive)])
        /\ UNCHANGED <<analysis_in, hash_seed>>

\* identify_ttp_dual up to disarm_matches.sort(...)
MatchDisarm(call) ==
    LET in == analysis_in[call]
        frame == locals[FrameOf(call)]
    IN  /\ analysis_pc[call] = "cat_matched"
        /\ Assign(call, "disarm_matched",
                  [frame EXCEPT !.disarm_matches =
                      disarm_matches(in.disarm_sim, in.narrative_text, in.min_confidence)])
        /\ UNCHANGED <<analysis_in, hash_seed>>

\* the rest of identify_ttp_dual
Merge(call) ==
    LET frame == locals[FrameOf(call)]
    IN  /\ analysis_pc[call] = "disarm_matched"
        /\ Return(call, BalancedMerge(frame.cat_matches, frame.disarm_matches,
                                      analysis_in[call].top_k_per_registry))
        /\ UNCHANGED <<analysis_in, hash_seed>>

\* analyze_target_audience: psychological_hits = ...
InferPsychological(call) ==
    LET in == analysis_in[call]
        frame == locals[FrameOf(call)]
    IN  /\ Entered(call, "analyze_target_audience")
        /\ \E seed \in (IF hash_seed = 0 THEN HashSeeds ELSE {hash_seed}) :
            /\ hash_seed' = seed
            /\ Assign(call, "psychological_inferred",
                      [frame EXCEPT !.psychological_hits =
                          infer_psychological_vulnerabilities(seed, in.features, in.ta,
                                                              in.identified_ttps)])
        /\ UNCHANGED analysis_in

\* analyze_target_audience: sociocultural_hits = ...
InferSociocultural(call) ==
    LET in == analysis_in[call]
        frame == locals[FrameOf(call)]
    IN  /\ analysis_pc[call] = "psychological_inferred"
        /\ Assign(call, "sociocultural_inferred",
                  [frame EXCEPT !.sociocultural_hits =
                      infer_sociocultural_vulnerabilities(hash_seed, in.features, in.ta,
                                                          in.identified_ttps)])
        /\ UNCHANGED <<analysis_in, hash_seed>>

\* the rest of analyze_target_audience
Resonate(call) ==
    LET frame == locals[FrameOf(call)]
    IN  /\ analysis_pc[call] = "sociocultural_inferred"
        /\ Return(call, VulnerabilityMap(frame.psychological_hits, frame.sociocultural_hits,
                                         analysis_in[call].identified_ttps))
        /\ UNCHANGED <<analysis_in, hash_seed>>

\* RISK_SCORER up to the six domain scores
ScoreDomains(call) ==
    LET frame == locals[FrameOf(call)]
    IN  /\ Entered(call, "RISK_SCORER")
        /\ Assign(call, "domains_scored",
                  [frame EXCEPT !.scores = DomainScores(analysis_in[call].c)])
        /\ UNCHANGED <<analysis_in, hash_seed>>

\* the rest of RISK_SCORER; a local that is not assigned cannot be read
Assess(call) ==
    LET frame == locals[FrameOf(call)]
    IN  /\ analysis_pc[call] = "domains_scored"
        /\ Return(call, IF frame.scores = <<>> THEN Raised("UnboundLocalError")
                        ELSE RiskAssessment(frame.scores,
                                            analysis_in[call].c.alignment_score))
        /\ UNCHANGED <<analysis_in, hash_seed>>

\* the caller takes the returned value
TakeResult(call) ==
    /\ analysis_pc[call] = "returned"
    /\ analysis_pc' = [analysis_pc EXCEPT ![call] = "idle"]
    /\ analysis_in' = [analysis_in EXCEPT ![call] = NoCall]
    /\ analysis_out' = [analysis_out EXCEPT ![call] = NoCall]
    /\ overlapped' = [overlapped EXCEPT ![call] = FALSE]
    /\ UNCHANGED <<pc, registries, locals, identifyVars, riskVars, audienceVars, cvfVars, peripheralVars, extractVars, ingestVars, translatorVars>>

NextConcurrent ==
    \E call \in Analyses :
        \/ Enter(call)
        \/ MatchCat(call)
        \/ MatchDisarm(call)
        \/ Merge(call)
        \/ InferPsychological(call)
        \/ InferSociocultural(call)
        \/ Resonate(call)
        \/ ScoreDomains(call)
        \/ Assess(call)
        \/ TakeResult(call)

SpecConcurrent == Init /\ [][NextConcurrent]_vars

(***************************************************************************)
(* Vocabulary of the properties of identify_ttp_dual.                      *)
(***************************************************************************)
Identified == pc = "identified"
NonBlankCall == Identified /\ Strip(ttp_call.narrative_text) # ""

\* adjusted similarities of the last call
CallCatSim(i) ==
    CatAdjustedSim(i, ttp_call.cat_sim[i], ttp_call.narrative_text,
                   ttp_call.prioritize_cognitive)
CallDisarmSim(i) == DisarmAdjustedSim(i, ttp_call.disarm_sim[i], ttp_call.narrative_text)

\* the qualifying entries of each registry: adjusted score >= min_confidence
QualifyingCat == {i \in CAT_EMBEDDINGS : CallCatSim(i) >= ttp_call.min_confidence}
QualifyingDisarm == {i \in DISARM_EMBEDDINGS : CallDisarmSim(i) >= ttp_call.min_confidence}

ResultOf(source) == SelectSeq(ttp_result, LAMBDA x : x.source = source)
ResultIds == {ttp_result[n].id : n \in DOMAIN ttp_result}

\* reported confidences of the qualifying entries that were not returned
OmittedCat == {Round3(CallCatSim(i)) :
                  i \in {j \in QualifyingCat : TTP_DESCRIPTIONS[j].id \notin ResultIds}}
OmittedDisarm == {Round3(CallDisarmSim(i)) :
                  i \in {j \in QualifyingDisarm : DISARM_DESCRIPTIONS[j].id \notin ResultIds}}

ConfidencesOf(list) == {list[n].confidence : n \in DOMAIN list}

\* position of an entry in its registry's storage order
StorageIndex(x) ==
    IF x.source = "CAT"
    THEN CHOOSE i \in CAT_EMBEDDINGS : TTP_DESCRIPTIONS[i].id = x.id
    ELSE CHOOSE i \in DISARM_EMBEDDINGS : DISARM_DESCRIPTIONS[i].id = x.id

\* C5: blank text (empty or only whitespace) returns the empty list and computes
\* no embedding, for every top_k_per_registry and min_confidence.
C5_BlankReturnsEmpty ==
    (Identified /\ Strip(ttp_call.narrative_text) = "")
        => (ttp_result = <<>> /\ embed_calls = 0)

C5_Witness ==
    /\ Identified
    /\ ttp_call.narrative_text = " \n\t "
    /\ ttp_call.top_k_per_registry = MaxK
    /\ \A i \in CAT_EMBEDDINGS : ttp_call.cat_sim[i] >= ttp_call.min_confidence
    /\ ttp_result = <<>>
    /\ embed_calls = 0

\* C6: balanced merge: for k >= 1 and a non-blank text, if both registries have at
\* least k qualifying entries, the result holds exactly k CAT and exactly k DISARM
\* entries.
C6_BalancedMerge ==
    (/\ NonBlankCall
     /\ ttp_call.top_k_per_registry >= 1
     /\ Cardinality(QualifyingCat) >= ttp_call.top_k_per_registry
     /\ Cardinality(QualifyingDisarm) >= ttp_call.top_k_per_registry)
        => (/\ Len(ResultOf("CAT")) = ttp_call.top_k_per_registry
            /\ Len(ResultOf("DISARM")) = ttp_call.top_k_per_registry)

C6_Witness ==
    /\ NonBlankCall
    /\ ttp_call.top_k_per_registry = 2
    /\ Cardinality(QualifyingCat) = 4
    /\ Cardinality(QualifyingDisarm) = 3
    /\ Len(ResultOf("CAT")) = 2
    /\ Len(ResultOf("DISARM")) = 2

\* C7: guaranteed inclusion: for each registry with q qualifying entries, the result
\* holds at least min(k, q) of its entries and no omitted qualifying entry of that
\* registry has a higher confidence than a returned one, whatever the other
\* registry's confidences are.
C7_GuaranteedInclusion ==
    NonBlankCall =>
        /\ Len(ResultOf("CAT")) >=
               Min(ttp_call.top_k_per_registry, Cardinality(QualifyingCat))
        /\ Len(ResultOf("DISARM")) >=
               Min(ttp_call.top_k_per_registry, Cardinality(QualifyingDisarm))
        /\ \A c \in ConfidencesOf(ResultOf("CAT")), o \in OmittedCat : o <= c
        /\ \A c \in ConfidencesOf(ResultOf("DISARM")), o \in OmittedDisarm : o <= c

\* the weaker registry keeps its entry although two omitted entries of the other
\* registry have a higher confidence
C7_Witness ==
    /\ NonBlankCall
    /\ ttp_call.top_k_per_registry = 1
    /\ Len(ResultOf("CAT")) = 1
    /\ Cardinality(OmittedDisarm) >= 1
    /\ Cardinality(QualifyingDisarm) = 3
    /\ \A o \in OmittedDisarm : o > ResultOf("CAT")[1].confidence

\* the returned entries of a registry beyond its first k
BeyondTopK(source) ==
    LET list == ResultOf(source)
    IN  {list[n].confidence : n \in {m \in DOMAIN list : m > ttp_call.top_k_per_registry}}

\* C8: backfill: for k >= 1 and a non-blank text the result has exactly
\* min(2k, qA + qB) entries, and no omitted qualifying entry of either registry has
\* a higher confidence than an entry returned beyond a registry's top k.
C8_Backfill ==
    (NonBlankCall /\ ttp_call.top_k_per_registry >= 1) =>
        /\ Len(ttp_result) =
               Min(2 * ttp_call.top_k_per_registry,
                   Cardinality(QualifyingCat) + Cardinality(QualifyingDisarm))
        /\ \A x \in BeyondTopK("CAT") \cup BeyondTopK("DISARM"),
              o \in OmittedCat \cup OmittedDisarm : o <= x

\* CAT backfills the places DISARM leaves free, and still one CAT entry is omitted
C8_Witness ==
    /\ NonBlankCall
    /\ ttp_call.top_k_per_registry = 2
    /\ Cardinality(QualifyingCat) = 4
    /\ Cardinality(QualifyingDisarm) = 1
    /\ Len(ttp_result) = 4
    /\ Len(ResultOf("CAT")) = 3
    /\ OmittedCat # {}

\* the order of the characters that occur in ids
IdAlphabet == "-.0123456789ABCDEFGHIJKLMNOPQRSTUVWXYZ"
CharRank(c) == CHOOSE r \in 1..Len(IdAlphabet) : SubSeq(IdAlphabet, r, r) = c

RECURSIVE IdLess(_, _)
\* a < b on id strings, as Python compares strings
IdLess(a, b) ==
    IF Len(b) = 0 THEN FALSE
    ELSE IF Len(a) = 0 THEN TRUE
    ELSE IF SubSeq(a, 1, 1) = SubSeq(b, 1, 1)
         THEN IdLess(SubSeq(a, 2, Len(a)), SubSeq(b, 2, Len(b)))
         ELSE CharRank(SubSeq(a, 1, 1)) < CharRank(SubSeq(b, 1, 1))

\* ttp_result is sorted by confidence descending with ties broken by registry
\* (first_registry first) and then by id (ascending or descending)
OrderedWithTieBreak(first_registry, ascending) ==
    \A m, n \in DOMAIN ttp_result :
        m < n =>
            /\ ttp_result[m].confidence >= ttp_result[n].confidence
            /\ ttp_result[m].confidence = ttp_result[n].confidence =>
                   IF ttp_result[m].source # ttp_result[n].source
                   THEN ttp_result[m].source = first_registry
                   ELSE IF ascending THEN IdLess(ttp_result[m].id, ttp_result[n].id)
                                     ELSE IdLess(ttp_result[n].id, ttp_result[m].id)

\* C9 as stated: sorted by confidence descending, ties broken by registry, then by
\* id, whatever the storage order (taken in its weakest reading: some order of the
\* two registries and some direction of the ids fits the returned list).
C9_AsClaimed ==
    Identified =>
        \E first_registry \in {"CAT", "DISARM"}, ascending \in BOOLEAN :
            OrderedWithTieBreak(first_registry, ascending)

\* the number of CAT entries among the first n entries of the result
CatRank(n) == Cardinality({m \in 1..n : ttp_result[m].source = "CAT"})

\* C9 amended: the list is sorted by confidence descending; entries of equal
\* confidence keep the order in which they were collected: within a registry the
\* registry's storage order, and across registries CAT before DISARM except that a
\* backfilled CAT entry (beyond CAT's top k) follows the DISARM entries.
C9_StableOrder ==
    Identified =>
        \A m, n \in DOMAIN ttp_result :
            m < n =>
                /\ ttp_result[m].confidence >= ttp_result[n].confidence
                /\ ttp_result[m].confidence = ttp_result[n].confidence =>
                       IF ttp_result[m].source = ttp_result[n].source
                       THEN StorageIndex(ttp_result[m]) < StorageIndex(ttp_result[n])
                       ELSE \/ ttp_result[m].source = "CAT"
                            \/ CatRank(n) > ttp_call.top_k_per_registry

\* a DISARM entry ahead of a backfilled CAT entry of the same confidence, and two
\* CAT entries of the same confidence in storage order, which is not id order
C9_Witness ==
    /\ Identified
    /\ \E m, n \in DOMAIN ttp_result :
          /\ m < n
          /\ ttp_result[m].confidence = ttp_result[n].confidence
          /\ ttp_result[m].source = "DISARM"
          /\ ttp_result[n].source = "CAT"
    /\ \E m, n \in DOMAIN ttp_result :
          /\ m < n
          /\ ttp_result[m].confidence = ttp_result[n].confidence
          /\ ttp_result[m].source = "CAT"
          /\ ttp_result[n].source = "CAT"
          /\ IdLess(ttp_result[n].id, ttp_result[m].id)

\* the adjusted similarity of the registry entry behind a returned entry
AdjustedOf(x) ==
    IF x.source = "CAT" THEN CallCatSim(StorageIndex(x)) ELSE CallDisarmSim(StorageIndex(x))

\* C10 as stated: every returned entry reports a confidence >= min_confidence, for
\* every min_confidence, and no entry with an adjusted score below it is returned.
C10_AsClaimed ==
    Identified =>
        \A n \in DOMAIN ttp_result :
            /\ ttp_result[n].confidence * ConfPerSim >= ttp_call.min_confidence
            /\ AdjustedOf(ttp_result[n]) >= ttp_call.min_confidence

\* C10 amended: every returned entry has an adjusted score >= min_confidence; its
\* reported confidence is that score rounded to three decimals, so it is at least
\* min_confidence - 0.0005, and at least min_confidence when min_confidence has no
\* more than three decimals.
C10_RoundedThreshold ==
    Identified =>
        \A n \in DOMAIN ttp_result :
            /\ AdjustedOf(ttp_result[n]) >= ttp_call.min_confidence
            /\ ttp_result[n].confidence = Round3(AdjustedOf(ttp_result[n]))
            /\ 2 * (ttp_call.min_confidence - ttp_result[n].confidence * ConfPerSim)
                   <= ConfPerSim
            /\ ttp_call.min_confidence % ConfPerSim = 0 =>
                   ttp_result[n].confidence * ConfPerSim >= ttp_call.min_confidence

\* a returned entry whose reported confidence is below a min_confidence with more
\* than three decimals
C10_Witness ==
    /\ Identified
    /\ ttp_call.min_confidence % ConfPerSim # 0
    /\ \E n \in DOMAIN ttp_result :
          /\ ttp_result[n].confidence * ConfPerSim < ttp_call.min_confidence
          /\ AdjustedOf(ttp_result[n]) >= ttp_call.min_confidence

\* C11 as stated: every returned entry has a confidence in [0,1], for every
\* min_confidence (zero and negative ones too) and dot products of either sign.
C11_AsClaimed ==
    Identified =>
        \A n \in DOMAIN ttp_result :
            /\ ttp_result[n].confidence >= 0
            /\ ttp_result[n].confidence * ConfPerSim <= SimUnit

\* a negative min_confidence admits an entry whose dot product is negative, and
\* its negative confidence is returned
C11_Witness ==
    /\ Identified
    /\ ttp_call.min_confidence < 0
    /\ \E n \in DOMAIN ttp_result :
          /\ ttp_result[n].confidence < 0
          /\ ttp_result[n].confidence = Round3(AdjustedOf(ttp_result[n]))

(***************************************************************************)
(* Properties of RISK_SCORER.                                              *)
(***************************************************************************)
Scored == pc = "scored"

ReportedScores == <<risk.p, risk.m, risk.e, risk.s, risk.i, risk.infra>>

\* C1: every one of the six domain scores of the returned RiskAssessment lies in
\* [0,1], and so does instability.
C1_ScoresInRange ==
    Scored =>
        /\ \A n \in 1..6 : ReportedScores[n] >= 0 /\ ReportedScores[n] <= ScoreUnit
        /\ risk.instability >= 0
        /\ risk.instability <= InstUnit

\* all six domains pushed past 1.0 by the evidence and held at 1.0
C1_Witness ==
    /\ Scored
    /\ \A n \in 1..6 : ReportedScores[n] = ScoreUnit
    /\ political_raw(risk_call) > ScoreUnit
    /\ infrastructure_raw(risk_call) > ScoreUnit

\* C2: risk_index equals floor(instability * 99) + 1 and lies in 1..100: 1 when
\* instability is 0, 100 when instability is 1.
C2_RiskIndex ==
    Scored =>
        /\ risk.risk_index \in 1..100
        /\ (risk.risk_index - 1) * InstUnit <= 99 * risk.instability
        /\ 99 * risk.instability < risk.risk_index * InstUnit
        /\ risk.instability = 0 => risk.risk_index = 1
        /\ risk.instability = InstUnit => risk.risk_index = 100

\* the weighted sum exceeds 1.0, instability is held at 1.0 and the index is 100
C2_Witness ==
    /\ Scored
    /\ risk_call.alignment_score > 0
    /\ risk.instability = InstUnit
    /\ risk.risk_index = 100

\* the number of reported domain scores strictly above 0.5
StrongDomains == Cardinality({n \in 1..6 : 2 * ReportedScores[n] > ScoreUnit})

\* C3 as stated: confidence equals 0.6 + 0.4 * (n / 6) exactly, n the number of
\* reported domain scores strictly above 0.5 (confidence in hundredths: 15 times
\* the confidence equals 100 * (9 + n)).
C3_AsClaimed ==
    Scored => 15 * risk.confidence = 100 * (9 + StrongDomains)

\* C3 amended: confidence equals 0.6 + 0.4 * (n / 6) rounded to two decimals
\* (it differs from the exact value by at most 0.005), and lies in [0.6, 1.0].
C3_RoundedConfidence ==
    Scored =>
        /\ 2 * (15 * risk.confidence - 100 * (9 + StrongDomains)) <= 15
        /\ 2 * (100 * (9 + StrongDomains) - 15 * risk.confidence) <= 15
        /\ risk.confidence >= 60
        /\ risk.confidence <= 100

\* one strong domain, one domain exactly at 0.5: 0.6667 is reported as 0.67
C3_Witness ==
    /\ Scored
    /\ StrongDomains = 1
    /\ \E n \in 1..6 : 2 * ReportedScores[n] = ScoreUnit
    /\ risk.confidence = 67

\* a call without domain evidence: no hits, no cues, no techniques, no keyword in
\* the text
NoEvidence ==
    /\ Scored
    /\ risk_call.psychological_hits = <<>>
    /\ risk_call.sociocultural_hits = <<>>
    /\ risk_call.framing_patterns = <<>>
    /\ risk_call.temporal_cues = <<>>
    /\ risk_call.identified_ttps = <<>>
    /\ \A d \in Domains : KeywordHits(DomainKeywords[d], risk_call.narrative_text) = 0

\* C4 as stated: without domain evidence every domain score equals its base value
\* (0.3, 0.35, 0.3, 0.2 and 0.3; information has none and starts from the
\* technique confidences) and is strictly greater than zero.
C4_AsClaimed ==
    NoEvidence =>
        /\ risk.p = Hundredths(30)
        /\ risk.m = Hundredths(35)
        /\ risk.e = Hundredths(30)
        /\ risk.s = Hundredths(20)
        /\ risk.infra = Hundredths(30)
        /\ \A n \in 1..6 : ReportedScores[n] > 0

\* the call without evidence and with the empty text: five domains at their base
\* value, information at 0.0
C4_Witness ==
    /\ NoEvidence
    /\ risk_call.narrative_text = ""
    /\ risk.p = Hundredths(30)
    /\ risk.i = 0

\* per domain and text: the keywords of the domain that occur in the text
MatchedKeywords ==
    [d \in Domains |->
        [t \in RiskTexts |->
            {j \in DOMAIN DomainKeywords[d] :
                Contains(Lower(DomainKeywords[d][j]), Lower(t))}]]

\* t2 contains every domain keyword that t1 contains
KeywordSuperset(t1, t2) ==
    \A d \in Domains : MatchedKeywords[d][t1] \subseteq MatchedKeywords[d][t2]

\* the domain scores of the last call had its text been t
ScoresForText(t) == DomainScores([risk_call EXCEPT !.narrative_text = t])

\* C13: keyword monotonicity: with everything else held fixed, a text that contains
\* every domain keyword of the scored text, and possibly more, gets no lower score
\* in any of the six domains.
C13_KeywordMonotone ==
    Scored =>
        \A t2 \in RiskTexts :
            KeywordSuperset(risk_call.narrative_text, t2) =>
                LET scores2 == ScoresForText(t2)
                IN  \A n \in 1..6 : scores2[n] >= ReportedScores[n]

\* a text with two keywords against one that contains both and more: the political
\* score rises with the further keywords until the clamp holds it at 1.0
C13_Witness ==
    /\ Scored
    /\ risk_call.narrative_text = "Sanctions hit the port"
    /\ KeywordSuperset(risk_call.narrative_text, SaturatingText)
    /\ MatchedKeywords["political"][risk_call.narrative_text]
           # MatchedKeywords["political"][SaturatingText]
    /\ ScoresForText(SaturatingText)[1] > risk.p
    /\ political_raw([risk_call EXCEPT !.narrative_text = SaturatingText]) > ScoreUnit
    /\ ScoresForText(SaturatingText)[1] = ScoreUnit

\* the RiskAssessment of the last call had its alignment_score been r
RiskForAlignment(r) == RISK_SCORER([risk_call EXCEPT !.alignment_score = r])

\* C14: resonance monotonicity: with everything else held fixed, a higher
\* alignment_score gives no lower instability and no lower risk_index, and every
\* sensitivity coefficient is >= 0.
C14_ResonanceMonotone ==
    Scored =>
        /\ \A r2 \in AlignmentValues :
               r2 >= risk_call.alignment_score =>
                   LET risk2 == RiskForAlignment(r2)
                   IN  /\ risk2.instability >= risk.instability
                       /\ risk2.risk_index >= risk.risk_index
        /\ \A n \in DOMAIN Sensitivity : Sensitivity[n] >= 0

\* from alignment 0 to alignment 1 the instability and the index rise strictly
C14_Witness ==
    /\ Scored
    /\ risk_call.alignment_score = 0
    /\ RiskForAlignment(AlignUnit).instability > risk.instability
    /\ RiskForAlignment(AlignUnit).risk_index > risk.risk_index
    /\ RiskForAlignment(AlignUnit).instability < InstUnit

\* C16 as stated: called with the technique list missing, RISK_SCORER does not raise
\* and returns the RiskAssessment it returns for the empty list.
C16_AsClaimed ==
    (Scored /\ risk_call.identified_ttps = None) =>
        risk = RISK_SCORER([risk_call EXCEPT !.identified_ttps = <<>>])

\* the call with the list missing raised a TypeError
C16_Witness ==
    /\ Scored
    /\ risk_call.identified_ttps = None
    /\ risk_call.narrative_text = ""
    /\ risk = Raised("TypeError")

(***************************************************************************)
(* Properties of analyze_target_audience.                                  *)
(***************************************************************************)
AnalyzedAgain == pc = "analyzed_again"

\* C12 as stated: a call repeated with identical arguments returns the identical
\* result, the order of the hit lists included.
C12_AsClaimed ==
    AnalyzedAgain => ta_result = ta_prev

\* the repeated call returns the same tags, counts and score, but its hit lists are
\* in another order
C12_Witness ==
    /\ AnalyzedAgain
    /\ ta_result.psychological_hits # ta_prev.psychological_hits
    /\ ta_result.sociocultural_hits # ta_prev.sociocultural_hits
    /\ {ta_result.psychological_hits[n] : n \in DOMAIN ta_result.psychological_hits}
           = {ta_prev.psychological_hits[n] : n \in DOMAIN ta_prev.psychological_hits}
    /\ ta_result.alignment_score = ta_prev.alignment_score

Analyzed == pc = "analyzed"

\* the number of distinct tags among the tags whose rule fired
DistinctFired(tags, rules) == Cardinality({tags[n] : n \in {m \in DOMAIN tags : rules[m]}})

\* C15: alignment_score equals min(1, (P + S + 0.15 * T) / 12), P and S the numbers
\* of distinct psychological and sociocultural tags (a tag produced by two rules
\* counts once) and T the number of identified techniques; it lies in [0,1].
C15_Resonance ==
    Analyzed =>
        LET P == DistinctFired(PsychTags, PsychRules(ta_call.features, ta_call.ta,
                                                     ta_call.identified_ttps))
            S == DistinctFired(SocioTags, SocioRules(ta_call.features, ta_call.ta,
                                                     ta_call.identified_ttps))
            T == Len(ta_call.identified_ttps)
        IN  /\ ta_result.alignment_score = Min(ResonanceUnit, 20 * (P + S) + 3 * T)
            /\ Len(ta_result.psychological_hits) = P
            /\ Len(ta_result.sociocultural_hits) = S
            /\ ta_result.alignment_score >= 0
            /\ ta_result.alignment_score <= ResonanceUnit

\* both institutional-distrust rules fire and the tag counts once: one
\* psychological tag, one sociocultural tag, no technique, score 2/12
C15_Witness ==
    /\ Analyzed
    /\ SocioRules(ta_call.features, ta_call.ta, ta_call.identified_ttps)[2]
    /\ SocioRules(ta_call.features, ta_call.ta, ta_call.identified_ttps)[3]
    /\ ta_result.sociocultural_hits = <<"institutional-distrust">>
    /\ ta_result.psychological_hits = <<"institutional-distrust-sensitivity">>
    /\ ta_call.identified_ttps = <<>>
    /\ ta_result.alignment_score = 40

(***************************************************************************)
(* Properties of map_to_cvf.                                               *)
(***************************************************************************)
Mapped == pc = "mapped"

\* the ids map_to_cvf inferred in the last call
CallInferred == inferred_ttps(hash_seed, cvf_call.features, cvf_call.vuln_map)

\* C17 as stated: whatever ids are inferred, those absent from the registry are
\* skipped and map_to_cvf returns a CVFResult without raising, also when the list
\* is empty or none of its ids is in the registry.
C17_AsClaimed ==
    Mapped =>
        /\ "raised" \notin DOMAIN cvf_result
        /\ cvf_result.activated_count = Len(ValidIds(CallInferred))

\* the only inferred id is absent from the registry: cluster_ttp skips it and
\* returns its early result, and map_to_cvf raises KeyError
C17_Witness ==
    /\ Mapped
    /\ CallInferred = <<"CAT-2023-006">>
    /\ ValidIds(CallInferred) = <<>>
    /\ cluster_ttp(CallInferred, cvf_call.centroid_sim) = EmptyCluster
    /\ cvf_result = Raised("KeyError")

(***************************************************************************)
(* Properties of PERIPHERAL_ANALYZER.                                      *)
(***************************************************************************)
Perceived == pc = "perceived"

InUnitInterval(x) == x.num >= 0 /\ x.num <= x.den /\ x.den > 0

\* C18, as claimed: for every text, the empty text and texts made only of
\* punctuation or whitespace included, PERIPHERAL_ANALYZER returns without
\* raising, and cognitive_load and peripheral_score are numbers in [0,1].
C18_AsClaimed ==
    Perceived =>
        /\ "raised" \notin DOMAIN peripheral
        /\ ~IsList(peripheral.cognitive_load)
        /\ InUnitInterval(peripheral.cognitive_load)
        /\ InUnitInterval(peripheral.peripheral_score)

\* a text of punctuation only has no sentence: the load 0.0 is replaced by [],
\* and the call raises TypeError
C18_Witness ==
    /\ Perceived
    /\ peripheral_call.text = "?!.."
    /\ Sentences(peripheral_call.text) = <<>>
    /\ compute_cognitive_load(peripheral_call.text) = Fraction(0, 1)
    /\ peripheral = Raised("TypeError")

(***************************************************************************)
(* Properties of extract_narrative_features.                               *)
(***************************************************************************)
Extracted == pc = "extracted"

\* the values analyze_chunk returned for the chunks of the call
CallParsed == [n \in DOMAIN extract_call.servers |-> analyze_chunk(ChunksOf[extract_call.text][n], extract_call.servers[n])]

\* C19, as claimed: on non-blank text, whatever the remote call does (all
\* attempts fail, the reply is not JSON, is JSON but not an object, or is an
\* object with missing keys), extract_narrative_features does not raise and
\* returns a dict with the nine schema keys, the defaults (empty lists,
\* "neutral") when no reply is an object.
C19_AsClaimed ==
    (Extracted /\ Strip(extract_call.text) # "") =>
        /\ "raised" \notin DOMAIN extract_result
        /\ DOMAIN extract_result = SchemaKeys
        /\ (\A n \in DOMAIN CallParsed : CallParsed[n].type # "object")
               => extract_result = SafeDefaults

\* the reply to the only chunk is the JSON list [1, 2]: it is kept as a result,
\* merge_outputs skips it, and reading list_keys raises UnboundLocalError
C19_Witness ==
    /\ Extracted
    /\ extract_call.text = "Leaders spread fear."
    /\ extract_call.servers[1] = ServerBehaviour(0, "[1, 2]")
    /\ CallParsed[1] = JsonArray(<<JsonNumber(1), JsonNumber(2)>>)
    /\ extract_result = Raised("UnboundLocalError")

(***************************************************************************)
(* Properties of concurrent analyses.                                      *)
(***************************************************************************)
\* what the call returns when it runs alone in this process
AloneResult(arguments) ==
    CASE arguments.function = "identify_ttp_dual" ->
            identify_ttp_dual(arguments.narrative_text, arguments.top_k_per_registry,
                              arguments.min_confidence, arguments.prioritize_cognitive,
                              arguments.cat_sim, arguments.disarm_sim)
      [] arguments.function = "analyze_target_audience" ->
            analyze_target_audience(hash_seed, arguments.features, arguments.ta,
                                    arguments.identified_ttps)
      [] arguments.function = "RISK_SCORER" -> RISK_SCORER(arguments.c)

\* C20: once the module is loaded, no step of identify_ttp_dual,
\* analyze_target_audience or RISK_SCORER changes the registries, and under every
\* interleaving of concurrent calls each call returns what it returns when it
\* runs alone.
C20_Isolation ==
    /\ registries = LoadedRegistries
    /\ \A call \in Analyses :
           analysis_pc[call] = "returned" =>
               analysis_out[call] = AloneResult(analysis_in[call])

\* call 1 has returned a non-empty list of techniques although call 2, which
\* identifies another text, took steps while call 1 was in progress and is still
\* between its two loops
C20_Witness ==
    /\ analysis_pc[1] = "returned"
    /\ overlapped[1]
    /\ analysis_in[1].function = "identify_ttp_dual"
    /\ analysis_out[1] # <<>>
    /\ analysis_out[1] = AloneResult(analysis_in[1])
    /\ analysis_pc[2] = "cat_matched"
    /\ analysis_in[2].narrative_text # analysis_in[1].narrative_text
    /\ locals[FrameOf(2)].cat_matches # <<>>

(***************************************************************************)
(* Properties of the weighting of identify_ttp_dual.                       *)
(***************************************************************************)
PrioritizedCall == NonBlankCall /\ ttp_call.prioritize_cognitive

\* C21, as claimed: with prioritize_cognitive enabled, every CAT entry whose
\* category is 'Vulnerability' or 'Exploit' keeps its full weight: its adjusted
\* score equals its raw similarity, whatever its description and the text contain.
C21_AsClaimed ==
    PrioritizedCall =>
        \A i \in CAT_EMBEDDINGS :
            CatIsCognitive[i] => CallCatSim(i) = ttp_call.cat_sim[i]

\* CAT-2022-175 is an Exploit whose description names coercion and torture: on a
\* text without technical vocabulary its 0.9 is cut to 0.27, below min_confidence,
\* and it is not reported
C21_Witness ==
    /\ PrioritizedCall
    /\ ttp_call.narrative_text = "Leaders spread fear"
    /\ TTP_DESCRIPTIONS[4].id = "CAT-2022-175"
    /\ CatIsCognitive[4]
    /\ ttp_call.cat_sim[4] = 900000
    /\ CallCatSim(4) = 270000
    /\ ttp_call.min_confidence = 450000
    /\ "CAT-2022-175" \notin ResultIds

\* the CAT score after the category and layer weighting, before the penalty
LayerWeighted(i, sim) ==
    IF CatIsCognitive[i] THEN sim
    ELSE IF CatIsLayer7[i] THEN Scale(sim, LayerFactorTenths)
    ELSE sim

\* some technical keyword is both in the description and in the lower-cased text
SharedKeyword(keywords, description, narrative_text) ==
    \E n \in DOMAIN keywords :
        /\ Contains(keywords[n], Lower(description))
        /\ Contains(keywords[n], Lower(narrative_text))

\* C22, as claimed: an entry whose description contains a technical keyword is
\* down-weighted (CAT by 0.3, DISARM by 0.7) unless that same keyword also appears
\* in the text; a different technical keyword in the text does not lift the penalty.
C22_AsClaimed ==
    NonBlankCall =>
        /\ \A i \in DISARM_EMBEDDINGS :
               DisarmDescIsTechnical[i] =>
                   CallDisarmSim(i) =
                       IF SharedKeyword(tech_keywords_disarm,
                                        DISARM_DESCRIPTIONS[i].description,
                                        ttp_call.narrative_text)
                       THEN ttp_call.disarm_sim[i]
                       ELSE Scale(ttp_call.disarm_sim[i], DisarmPenaltyTenths)
        /\ ttp_call.prioritize_cognitive =>
               \A i \in CAT_EMBEDDINGS :
                   CatDescIsTechnical[i] =>
                       CallCatSim(i) =
                           IF SharedKeyword(tech_keywords, TTP_DESCRIPTIONS[i].description,
                                            ttp_call.narrative_text)
                           THEN LayerWeighted(i, ttp_call.cat_sim[i])
                           ELSE Scale(LayerWeighted(i, ttp_call.cat_sim[i]),
                                      CatPenaltyTenths)

\* the text has "bot" but not "hashtag": DISARM-T0015, whose description has only
\* "hashtag", keeps its 0.9 and is reported with confidence 0.9, not 0.63
C22_Witness ==
    /\ NonBlankCall
    /\ ttp_call.narrative_text = "Bots push MALWARE"
    /\ DISARM_DESCRIPTIONS[2].id = "DISARM-T0015"
    /\ DisarmDescIsTechnical[2]
    /\ ~SharedKeyword(tech_keywords_disarm, DISARM_DESCRIPTIONS[2].description,
                      ttp_call.narrative_text)
    /\ ttp_call.disarm_sim[2] = 900000
    /\ CallDisarmSim(2) = 900000
    /\ \E n \in DOMAIN ttp_result :
           ttp_result[n].id = "DISARM-T0015" /\ ttp_result[n].confidence = 900

(***************************************************************************)
(* Properties of the instability of RISK_SCORER.                           *)
(***************************************************************************)
ComponentUnit == 40 * ScoreUnit    \* 1.0 as an instability component

\* the n-th post-multiplier value of the last call
CallComponent(n) == instability_component(ReportedScores, n, risk_call.alignment_score)

\* the weighted sum of the six post-multiplier values, each held in [0,1] first
ClampedComponentSum ==
    LET sum[n \in 0..6] ==
            IF n = 0 THEN 0
            ELSE sum[n - 1] + Weights[n] * Max(0, Min(ComponentUnit, CallComponent(n)))
    IN  sum[6]

\* C23, as claimed: each post-multiplier value score * (1 + resonance * sensitivity)
\* is clamped to [0,1] before the weighted sum, so instability is the weighted sum
\* (weights 0.20, 0.10, 0.15, 0.20, 0.25, 0.10) of six values in [0,1].
C23_AsClaimed ==
    Scored =>
        /\ Weights[1] + Weights[2] + Weights[3] + Weights[4] + Weights[5] + Weights[6] = 20
        /\ risk.instability = ClampedComponentSum

\* a domain score of 1.0 with a positive resonance enters the sum as a value above
\* 1.0, and the instability, itself below 1.0, is larger than the sum of the
\* clamped values
C23_Witness ==
    /\ Scored
    /\ risk_call.alignment_score > 0
    /\ \E n \in 1..6 : ReportedScores[n] = ScoreUnit /\ CallComponent(n) > ComponentUnit
    /\ risk.instability < InstUnit
    /\ risk.instability > ClampedComponentSum

\* the domains whose score starts from domain_boost
BoostedDomains == Domains \ {"information"}

\* per domain and technique name: a keyword of the domain lies in the lower-cased name
NameOverlaps ==
    [d \in Domains |-> [nm \in TtpNames |-> ContainsAny(DomainKeywords[d], Lower(nm))]]

RECURSIVE OverlapConfidence(_, _)
\* the confidences of the techniques whose name overlaps the domain's keywords,
\* every technique counted once
OverlapConfidence(domain, identified_ttps) ==
    IF identified_ttps = <<>> THEN 0
    ELSE (IF NameOverlaps[domain][Head(identified_ttps).name]
          THEN Head(identified_ttps).confidence ELSE 0)
         + OverlapConfidence(domain, Tail(identified_ttps))

\* the technique part of the strength that domain_boost computed for the call
CallTtpStrength(domain) ==
    LET keywords == DomainKeywords[domain]
    IN  (3 * ConfToScore(SumTtpConf(keywords, Len(keywords), risk_call.identified_ttps)))
        \div 10

\* C24: the technique-confidence boost of a domain is 0.3 times the sum of the
\* confidences of the identified techniques whose name overlaps the domain's
\* keywords: each such technique counts once, two of them count both, and a
\* multi-word keyword contained in a name is an overlap.
C24_AsClaimed ==
    Scored =>
        \A d \in BoostedDomains :
            CallTtpStrength(d)
                = (3 * ConfToScore(OverlapConfidence(d, risk_call.identified_ttps))) \div 10

\* a single technique "Supply Chain Attack" with confidence 0.9 and nothing else:
\* the economic keyword "supply chain" lies in its name, the boost is 0 and the
\* economic score stays at its base 0.3
C24_Witness ==
    /\ Scored
    /\ risk_call.identified_ttps = <<[name |-> "Supply Chain Attack", confidence |-> 900]>>
    /\ risk_call.sociocultural_hits = <<>>
    /\ risk_call.narrative_text = ""
    /\ NameOverlaps["economic"]["Supply Chain Attack"]
    /\ CallTtpStrength("economic") = 0
    /\ risk.e = Hundredths(30)

\* the six domains in the order of ReportedScores and the multiplier each one passes
\* to keyword_hit_score, in hundredths
ScoreOrder == <<"political", "military", "economic", "social", "information", "infrastructure">>
HitMultipliers == <<15, 12, 15, 10, 18, 12>>

\* the six domain values before the clamp
DomainRaws(c) ==
    <<political_raw(c), military_raw(c), economic_raw(c), social_raw(c), information_raw(c),
      infrastructure_raw(c)>>

\* the domain value of the call before the clamp when the text holds no keyword: the
\* hit boost, the technique boost and the base
CallRawWithoutText(n) == DomainRaws([risk_call EXCEPT !.narrative_text = ""])[n]

\* per domain and text: the domain keywords that occur in the lower-cased text at
\* least once
PresentCount ==
    [d \in Domains |-> [t \in ScoredTexts |->
        Cardinality({j \in DOMAIN DomainKeywords[d] :
                        Occurrences(Lower(DomainKeywords[d][j]), Lower(t)) >= 1})]]

\* per domain and text: the occurrences of the domain keywords in the lower-cased text
OccurrenceCount ==
    [d \in Domains |-> [t \in ScoredTexts |-> OccurrenceHits(DomainKeywords[d], t)]]

PresentKeywords(n) == PresentCount[ScoreOrder[n]][risk_call.narrative_text]

KeywordOccurrences(n) == OccurrenceCount[ScoreOrder[n]][risk_call.narrative_text]

\* the reported score of domain n when the raw-text boost is min(0.6, multiplier * c)
ScoreWithTextBoost(n, c) ==
    ClampScore(CallRawWithoutText(n) + Min(Hundredths(60), Hundredths(HitMultipliers[n]) * c))

\* C25 as stated: the raw-text boost of a domain is min(0.6, multiplier * c), c the
\* number of occurrences of the domain's keywords in the lower-cased text, the cap
\* on this boost alone.
C25_AsClaimed ==
    Scored => \A n \in 1..6 : ReportedScores[n] = ScoreWithTextBoost(n, KeywordOccurrences(n))

\* C25: the raw-text boost of a domain is min(0.6, multiplier * c), c the number of
\* the domain's keywords that occur in the lower-cased text at least once, the cap
\* on this boost alone, whatever the hit boost and the technique boost are.
C25_TextBoost ==
    Scored => \A n \in 1..6 : ReportedScores[n] = ScoreWithTextBoost(n, PresentKeywords(n))

\* "sanctions" three times and nothing else: one economic keyword, three
\* occurrences, the economic score is 0.3 + 0.15
C25_Witness ==
    /\ Scored
    /\ risk_call.narrative_text = "Sanctions, sanctions, sanctions."
    /\ risk_call.identified_ttps = <<>>
    /\ risk_call.sociocultural_hits = <<>>
    /\ PresentKeywords(3) = 1
    /\ KeywordOccurrences(3) = 3
    /\ risk.e = Hundredths(45)

LlamaRunning == llama_pc \in {"while", "create", "sleep"}
LlamaReturned == llama_pc = "returned"

\* the calls of the server made so far, all of them and the failed ones
ServerCalls == {i \in DOMAIN llama_log : llama_log[i].event # "sleep"}
FailedCalls == {i \in DOMAIN llama_log : llama_log[i].event = "failed"}

\* a run_llama call with a prompt that is not blank and max_retries >= 1
RetryingCall ==
    /\ llama_call # NoCall
    /\ Strip(llama_call.prompt) # ""
    /\ llama_call.max_retries >= 1

\* the calls and sleeps of a run_llama call with max_retries = n >= 1
LlamaSchedule ==
    RetryingCall =>
        /\ Cardinality(ServerCalls) <= llama_call.max_retries
        /\ \A i \in DOMAIN llama_log :
              /\ llama_log[i].event = "succeeded" =>
                    /\ i = Len(llama_log)
                    /\ LlamaReturned
                    /\ llama_result = ReturnValue(Strip(llama_log[i].content))
              /\ (llama_log[i].event = "failed" /\ i < Len(llama_log)) =>
                    /\ llama_log[i + 1].event = "sleep"
                    /\ llama_log[i + 1].seconds = llama_call.retry_delay
              /\ (llama_log[i].event = "sleep" /\ i < Len(llama_log)) =>
                    llama_log[i + 1].event # "sleep"
              /\ (llama_log[i].event = "sleep" /\ i = Len(llama_log)) =>
                    /\ llama_pc \in {"while", "create"}
                    /\ attempt < llama_call.max_retries
        /\ (LlamaReturned /\ llama_result = ReturnValue(None)) =>
              /\ ServerCalls = FailedCalls
              /\ Cardinality(FailedCalls) = llama_call.max_retries
        /\ LlamaReturned => (llama_result = ReturnValue(None) \/ llama_log[Len(llama_log)].event = "succeeded")

DefaultChunking ==
    /\ chunk_call # NoCall
    /\ chunk_call.size = CHUNK_SIZE
    /\ chunk_call.overlap = OVERLAP

\* C27: with the default size 1800 and overlap 200 the start position strictly
\* increases on every iteration of the loop of chunk_text, also when the last period
\* of the window lies within the first 200 characters of the window, so that the
\* loop ends for every text.
C27_AsClaimed ==
    DefaultChunking => \A i \in 2..Len(starts) : starts[i] > starts[i - 1]

\* the only period of the first window is the 200th character: every iteration cuts
\* the same 200 characters and leaves start at 0, the loop is where it began
C27_Witness ==
    /\ DefaultChunking
    /\ chunk_pc = "while"
    /\ chunk_call.text = LoopingText
    /\ Len(spans) = MaxIterations
    /\ starts = <<0, 0, 0, 0, 0>>
    /\ \A i \in DOMAIN chunks : Len(chunks[i]) = OVERLAP
    /\ start < Len(chunk_call.text)

ChunksReturned == chunk_pc = "returned"

\* the 0-based positions of the text that are not whitespace
InkPositions ==
    {k \in 0..(Len(chunk_call.text) - 1) : ~IsSpace(SubSeq(chunk_call.text, k + 1, k + 1))}

\* the slices that were appended as chunks
AppendedSpans == SelectSeq(spans, LAMBDA span : span.appended)

\* C28: whenever chunk_text returns, start was never negative, every character of
\* the text that is not whitespace lies in a chunk, the chunks are in text order and
\* no chunk is longer than size.
C28_AsClaimed ==
    ChunksReturned =>
        /\ \A i \in DOMAIN starts : starts[i] >= 0
        /\ \A k \in InkPositions :
              \E i \in DOMAIN AppendedSpans :
                  AppendedSpans[i].from <= k /\ k < AppendedSpans[i].to
        /\ \A i \in 2..Len(AppendedSpans) :
              /\ AppendedSpans[i - 1].from <= AppendedSpans[i].from
              /\ AppendedSpans[i - 1].to <= AppendedSpans[i].to
        /\ \A i \in DOMAIN chunks : Len(chunks[i]) <= chunk_call.size

\* "Hi." and 2000 letters: the first chunk ends at the period, start becomes
\* 3 - 200, the next slice text[-197:1603] is empty, and the characters 3..1402 are
\* in no chunk
C28_Witness ==
    /\ ChunksReturned
    /\ DefaultChunking
    /\ chunk_call.text = BackwardText
    /\ starts = <<0, 3 - OVERLAP, 1403, 2003>>
    /\ Len(chunks) = 2
    /\ chunks[1] = "Hi."
    /\ Len(chunks[2]) = 600
    /\ 3 \in InkPositions
    /\ \A i \in DOMAIN AppendedSpans : ~(AppendedSpans[i].from <= 3 /\ 3 < AppendedSpans[i].to)

Ingested == pc = "ingested"

\* C29: what ingest accepts, INPUT_LAYER accepts: INPUT_LAYER returns a Payload for
\* ingest's result, also when an optional field such as trust_landscape holds a
\* value that is not an object; and what ingest rejects, it rejects with
\* ValidationError.
C29_AsClaimed ==
    Ingested =>
        IF IsRaised(ingest_result)
        THEN ingest_result = Raised("ValidationError")
        ELSE ~IsRaised(input_result)

\* trust_landscape is the string "low": ingest passes it through, INPUT_LAYER calls
\* .get on it
C29_Witness ==
    /\ Ingested
    /\ ~IsRaised(ingest_result)
    /\ "trust_landscape" \in DOMAIN ingest_result.ta_raw.members
    /\ ingest_result.ta_raw.members["trust_landscape"] = JsonString("low")
    /\ input_result = Raised("AttributeError")

\* what the calls of Translator.get returned so far
ReturnedInstances ==
    {get_result[thread].returned : thread \in {t \in Threads : get_result[t] # NoCall}}

\* C30: whatever the interleaving of the calls of Translator.get, the pipeline
\* constructor runs at most once in the process and every caller gets the same
\* instance.
C30_AsClaimed ==
    /\ pipelines <= 1
    /\ Cardinality(ReturnedInstances) <= 1

\* two threads both found _instance None: two pipelines were built, the first
\* caller got the first and the second caller the second
C30_Witness ==
    /\ pipelines = 2
    /\ get_result[1] = ReturnValue(1)
    /\ get_result[2] = ReturnValue(2)
    /\ Translator_instance = 2

====
